---------------------------- MODULE Spec2Model ----------------------------
(***************************************************************************)
(* Model of the mindmap trading bot: the orchestrator (BotCoreEngine), the *)
(* trade executor and swap service, the trade history store with its open  *)
(* and closed index sets, the batch price monitor and the trade watcher    *)
(* with its stepped trailing stop.                                         *)
(*                                                                         *)
(* Prices are fixed-point numbers in hundredths of a price unit: U(150) is *)
(* the price 150.  Observed prices are whole units and percentages are     *)
(* whole numbers, so p * (100 +- k) / 100 is exact.  An optional field     *)
(* that is unset (undefined in the source) holds Undef; a percentage or a  *)
(* hold time that is unset holds 0, which the source treats like undefined *)
(* (both are falsy).                                                       *)
(***************************************************************************)
EXTENDS Integers, Sequences, FiniteSets, TLC

VARIABLES
    \* ---- stepped trailing stop driven as a pure function ----
    tTrade,         \* the trade object handed to the watcher's price step
    tPrev,          \* the same object before the last observed price
    tPrices,        \* the prices observed so far, oldest first
    tReason,        \* exit selected by checkSellConditions at the last price
    \* ---- TradeHistoryService: the Redis keys of the trade store ----
    trades,         \* trade:<id> -> the stored trade object, or NoTrade
    openSet,        \* the set open_trades
    closedSet,      \* the set closed_trades
    agentIndex,     \* the set agent_trades:<agent> of the one agent
    tokenIndex,     \* token_trades:<mint> -> set of ids
    nextId,         \* the next trade id createTrade hands out
    \* ---- callers of the store, each inside at most one call ----
    cOp,            \* the call a client is in, or "none"
    cPc,            \* the await point of that call
    cTrade,         \* the trade object the call holds
    closedIds,      \* history: ids for which a closeTrade call has returned
    calls,          \* history: the number of store calls begun
    lastCall,       \* history: the last call made and how it went on
    events,         \* history: the number of calls that have emitted their events
    \* ---- BatchPriceService: the price cache ----
    pPrice,         \* price_cache:<mint> -> price, or Undef when absent
    pErr,           \* price_error:<mint> present
    pSource,        \* price_source:<mint>, or "none"
    pInterest,      \* monitor_active:<mint> present
    dPc,            \* caller of discoverToken -> "idle" or "fetching"
    dMint,          \* the mint that caller's discoverToken is fetching
    \* ---- TradeWatcherService and the wallet it sells from ----
    wMode,          \* "real" or "paper" (SIMULATING)
    clock,          \* the time, in minutes
    wallet,         \* mint -> token balance of the wallet
    sellCalls,      \* history: id -> performSwap sell calls made for the trade
    sellOk,         \* history: id -> sell swaps that returned success
    lastEval,       \* history: what the last evaluateTrade did
    evals,          \* history: the number of evaluations run
    \* ---- BotCoreEngine and the cache keys it coordinates through ----
    processed,      \* the set bot:processed_tokens
    predFailed,     \* the set bot:prediction_failed
    retryCount,     \* mint -> prediction retry counter (0: key absent)
    hPc,            \* handler -> await point of its handleMindmapUpdate
    hMint,          \* handler -> the token of the event it handles
    hCount,         \* handler -> the counter value its increment has read
    consecNon,      \* history: mint -> non-approvals in a row, keys unexpired
    deliveries,     \* history: the number of events delivered
    \* ---- MindmapFilterEngine ----
    fCriteria,      \* the filter criteria of the engine
    fData,          \* the mindmap snapshot handed to evaluate
    fResult,        \* the FilterResult of the last evaluate, or NoResult
    \* ---- PredictionService and its retried request ----
    qPc,            \* position of the predict call: idle, post, delay, done
    qAttempt,       \* the loop variable attempt of withRetry
    qOps,           \* history: operations withRetry has started in this call
    qDelay,         \* the backoff delay of the last wait, in ms
    qAnswer,        \* the outcome of the last operation, or NoAnswer
    qResult,        \* the result predict returned, or NoPrediction
    qCalls,         \* history: the number of predict calls
    \* ---- mindmap snapshots and TradeExecutor.execute ----
    mindmap,        \* mint -> cached mindmap snapshot (0: no key)
    hSwaps,         \* history: handler -> performSwap calls of its event
    hSuccess,       \* handler -> success of the TradeResult, or "none"
    lastEvent,      \* history: the last mindmap_update event delivered
    redo,           \* history: the handler of a repeated event, or "none"
    redoSnap,       \* history: the snapshot cached when that event arrived
    \* ---- PaperWalletService ----
    lBalance,       \* the field of paper_wallet:balance for one mint
    lPc,            \* caller -> position in deposit or withdraw
    lOp,            \* caller -> the call it is in
    lRead,          \* caller -> the balance its hGet returned
    lDeposited,     \* history: the sum of the deposits that returned
    lWithdrawn,     \* history: the sum of the withdrawals that returned
    lCalls,         \* history: the number of calls made
    \* ---- timers of TradeWatcherService and the price-monitor worker ----
    kCheck,         \* checkInterval: the id of the tick timer, 0 for null
    kTimers,        \* the interval timers that are set: records of id and kind
    kNextTimer,     \* the id the next timer gets
    kMon,           \* isMonitoring of the worker's BatchPriceService
    kWorker,        \* the worker thread: "new", "running" or "exited"
    kLoops,         \* the loops of the worker with a timeout pending
    kStopped,       \* history: ticker group -> a stop signal was its last signal
    kAfter,         \* history: ticker -> ticks started since the stop signal
    kTicks,         \* history: ticker -> ticks started with no stop signal
    kStarts,        \* history: the number of start calls
    \* ---- TradeWatcherService.processOpenTrades at its awaits ----
    yProcessing,    \* isProcessing
    yPc,            \* call of processOpenTrades -> its position
    yEval,          \* call -> trade id -> position of its evaluateTrade
    yInFlight,      \* processingTrades
    ySwaps,         \* history: trade id -> sell swap calls awaiting their answer
    yStatus,        \* trade id -> "none", "open" or "closed" in the store
    yLastTick,      \* history: what the last call did at the guard
    yTicks,         \* history: the number of calls of processOpenTrades
    \* ---- handleKOLTradeUpdate and the snapshots it rewrites ----
    uSnap,          \* mint -> cached snapshot (networkMetrics, kolConnections) or NoSnapshot
    uPc,            \* handler -> position in handleKOLTradeUpdate
    uEvent,         \* handler -> the trade of its event
    uQueue,         \* handler -> affected tokens still to be visited
    uData,          \* handler -> the snapshot it read and recalculated
    uExpected,      \* history: mint -> totalTrades of the last overwrite plus the updates written since
    uEvents,        \* history: the number of events delivered
    \* ---- WebSocketManager ----
    socket,         \* "none" (null), or the state of the current socket: "connecting", "connected", "closed"
    reconnectAttempts, \* reconnectAttempts
    isReconnecting, \* isReconnecting
    shouldReconnect, \* shouldReconnect
    sTimer,         \* the setTimeout of reconnectWithBackoff is pending
    sCaller,        \* who called the pending connect(): "start" or "timer"
    sOpened,        \* history: the number of sockets opened by io()
    sLost,          \* history: the connection was lost by an unintentional disconnect
    sMaxReached,    \* history: max_reconnect_attempts_reached was emitted since the last connection
    sDisconnectCalled, \* history: disconnect() has been called
    sForwarded,     \* history: data events passed on to the listeners
    \* ---- the pending-trade lock of CacheService ----
    nLock,          \* mint -> the key bot:pending_trade:<mint> exists
    nOwner,         \* history: mint -> the caller whose acquire set the present key, or "none"
    nHolds,         \* caller -> mint -> its acquire returned true and it has not released
    nLast,          \* history: the last call or expiry: operation, caller, mint, result
    nCalls          \* history: the number of calls made

trailVars == <<tTrade, tPrev, tPrices, tReason>>

storeVars == <<trades, openSet, closedSet, agentIndex, tokenIndex, nextId>>

clientVars == <<cOp, cPc, cTrade, closedIds, calls, lastCall, events>>

cacheVars == <<pPrice, pErr>>

priceVars == <<pSource, pInterest, dPc, dMint>>

watchVars == <<wMode, clock, wallet, sellCalls, sellOk, lastEval, evals>>

vars == <<tTrade, tPrev, tPrices, tReason,
          trades, openSet, closedSet, agentIndex, tokenIndex, nextId,
          cOp, cPc, cTrade, closedIds, calls, lastCall, events,
          pPrice, pErr, pSource, pInterest, dPc, dMint,
          wMode, clock, wallet, sellCalls, sellOk, lastEval, evals,
          processed, predFailed, retryCount, hPc, hMint, hCount, consecNon,
          deliveries,
          fCriteria, fData, fResult,
          qPc, qAttempt, qOps, qDelay, qAnswer, qResult, qCalls,
          mindmap, hSwaps, hSuccess, lastEvent, redo, redoSnap,
          lBalance, lPc, lOp, lRead, lDeposited, lWithdrawn, lCalls,
          kCheck, kTimers, kNextTimer, kMon, kWorker, kLoops, kStopped, kAfter, kTicks, kStarts,
          yProcessing, yPc, yEval, yInFlight, ySwaps, yStatus, yLastTick, yTicks,
          uSnap, uPc, uEvent, uQueue, uData, uExpected, uEvents,
          socket, reconnectAttempts, isReconnecting, shouldReconnect, sTimer, sCaller, sOpened, sLost, sMaxReached, sDisconnectCalled, sForwarded,
          nLock, nOwner, nHolds, nLast, nCalls>>

filterVars == <<fCriteria, fData, fResult>>

lockVars == <<nLock, nOwner, nHolds, nLast, nCalls>>

socketVars == <<socket, reconnectAttempts, isReconnecting, shouldReconnect, sTimer, sCaller, sOpened, sLost, sMaxReached, sDisconnectCalled, sForwarded>>

updateVars == <<uSnap, uPc, uEvent, uQueue, uData, uExpected, uEvents>>

cycleVars == <<yProcessing, yPc, yEval, yInFlight, ySwaps, yStatus, yLastTick, yTicks>>

tickerVars == <<kCheck, kTimers, kNextTimer, kMon, kWorker, kLoops, kStopped, kAfter, kTicks, kStarts>>

ledgerVars == <<lBalance, lPc, lOp, lRead, lDeposited, lWithdrawn, lCalls>>

executeVars == <<mindmap, hSwaps, hSuccess, lastEvent, redo, redoSnap>>

predictVars == <<qPc, qAttempt, qOps, qDelay, qAnswer, qResult, qCalls>>

coreVars == <<processed, predFailed, retryCount, hPc, hMint, hCount, consecNon,
              deliveries>>

\* What the actions of one specification leave alone.
storeFrame == <<trailVars, cacheVars, priceVars, watchVars, coreVars, filterVars,
    predictVars,
    executeVars,
    ledgerVars,
    tickerVars,
    cycleVars,
    updateVars,
    socketVars,
    lockVars>>

trailFrame == <<storeVars, clientVars, cacheVars, priceVars, watchVars, coreVars,
                filterVars,
    predictVars,
    executeVars,
    ledgerVars,
    tickerVars,
    cycleVars,
    updateVars,
    socketVars,
    lockVars>>

watchFrame == <<trailVars, clientVars, priceVars, coreVars, filterVars,
    predictVars,
    executeVars,
    ledgerVars,
    tickerVars,
    cycleVars,
    updateVars,
    socketVars,
    lockVars>>

priceFrame == <<trailVars, storeVars, clientVars, watchVars, coreVars, filterVars,
    predictVars,
    executeVars,
    ledgerVars,
    tickerVars,
    cycleVars,
    updateVars,
    socketVars,
    lockVars>>

coreRest == <<trailVars, clientVars, cacheVars, priceVars,
              wMode, clock, sellCalls, sellOk, lastEval, evals, filterVars,
              predictVars, ledgerVars,
    tickerVars,
    cycleVars,
    updateVars,
    socketVars,
    lockVars>>

coreFrame == <<coreRest, executeVars>>

\* -------------------------------------------------------------------------
\* Bounds of the model
\* -------------------------------------------------------------------------
MaxFeed == 5
MaxTrades == 2
MaxStoreCalls == 4
MaxClock == 2
MaxEvals == 2
MaxDeliveries == 4

\* -------------------------------------------------------------------------
\* Values
\* -------------------------------------------------------------------------
Undef == 0 - 1

U(x) == x * 100

\* JavaScript truthiness of a number-or-undefined field: 0 and undefined are falsy.
Falsy(x) == x = 0 \/ x = Undef

\* sellConditions of a trade (TradeHistoryEntry.sellConditions).
SellConditions(tp, sl, trail, maxHold) ==
    [ takeProfitPercentage   |-> tp,
      stopLossPercentage     |-> sl,
      trailingStopPercentage |-> trail,
      maxHoldTimeMinutes     |-> maxHold,
      trailingStopActivated  |-> FALSE,
      stepLevel              |-> Undef,
      nextTargetPrice        |-> Undef,
      currStopPrice          |-> Undef ]

\* The trade object createTrade builds: status open, the three running prices
\* set to the entry price, no exit data.
NewTrade(id, mint, entryPrice, entryAmount, conds, now) ==
    [ id            |-> id,
      tokenMint     |-> mint,
      status        |-> "open",
      openedAt      |-> now,
      closedAt      |-> Undef,
      entryPrice    |-> entryPrice,
      entryAmount   |-> entryAmount,
      entryValue    |-> entryPrice * entryAmount,
      exitPrice     |-> Undef,
      exitAmount    |-> Undef,
      exitValue     |-> Undef,
      realizedPnL   |-> Undef,
      sellReason    |-> "none",
      highestPrice  |-> entryPrice,
      lowestPrice   |-> entryPrice,
      currentPrice  |-> entryPrice,
      sellConditions |-> conds ]

\* -------------------------------------------------------------------------
\* TradeWatcherService: the price step of evaluateTrade as pure functions
\* -------------------------------------------------------------------------

\* ((currentPrice - entryPrice) / entryPrice) * 100 >= pct, as the source's
\* floating point division decides it: a zero entry price gives +Infinity for
\* a positive price (the comparison is true) and NaN for a zero price (every
\* comparison with NaN is false).
ChangeAtLeast(currentPrice, entryPrice, pct) ==
    IF entryPrice > 0
    THEN (currentPrice - entryPrice) * 100 >= pct * entryPrice
    ELSE currentPrice > 0

\* WithPrice with the high set only while it is unset, and the low compared
\* the wrong way round.
WithPriceStaleHigh(trade, currentPrice) ==
    [trade EXCEPT
        !.currentPrice = currentPrice,
        !.highestPrice = IF Falsy(@) THEN currentPrice ELSE @,
        !.lowestPrice  = IF Falsy(@) \/ currentPrice > @ THEN currentPrice ELSE @]

\* The running high and low of evaluateTrade (and of updateTradePrice).
WithPrice(trade, currentPrice) ==
    [trade EXCEPT
        !.currentPrice = currentPrice,
        !.highestPrice = IF Falsy(@) \/ currentPrice > @ THEN currentPrice ELSE @,
        !.lowestPrice  = IF Falsy(@) \/ currentPrice < @ THEN currentPrice ELSE @]

\* A mutant of updateTrailingStopLoss: the ratchet recomputes the stop and the
\* target from the old target instead of the observed price.
updateTrailingStopLossFromTarget(trade, currentPrice) ==
    LET c == trade.sellConditions
        hi == IF Falsy(trade.highestPrice) \/ currentPrice > trade.highestPrice
              THEN currentPrice ELSE trade.highestPrice
        t1 == [trade EXCEPT !.highestPrice = hi]
    IN  IF Falsy(c.takeProfitPercentage) \/ Falsy(c.trailingStopPercentage)
        THEN trade
        ELSE IF ~c.trailingStopActivated
        THEN IF ChangeAtLeast(currentPrice, trade.entryPrice, c.takeProfitPercentage)
             THEN [t1 EXCEPT
                     !.sellConditions.trailingStopActivated = TRUE,
                     !.sellConditions.stepLevel = 1,
                     !.sellConditions.currStopPrice =
                         (currentPrice * (100 - c.trailingStopPercentage)) \div 100,
                     !.sellConditions.nextTargetPrice =
                         (currentPrice * (100 + c.takeProfitPercentage)) \div 100]
             ELSE t1
        ELSE IF ~Falsy(c.nextTargetPrice) /\ currentPrice >= c.nextTargetPrice
        THEN [t1 EXCEPT
                !.sellConditions.stepLevel = (IF Falsy(@) THEN 1 ELSE @) + 1,
                !.sellConditions.currStopPrice =
                    (c.nextTargetPrice * (100 - c.trailingStopPercentage)) \div 100,
                !.sellConditions.nextTargetPrice =
                    (c.nextTargetPrice * (100 + c.takeProfitPercentage)) \div 100]
        ELSE t1

\* A mutant of updateTrailingStopLoss: the stop is placed above the observed
\* price instead of below it.
updateTrailingStopLossStopAbove(trade, currentPrice) ==
    LET c == trade.sellConditions
        hi == IF Falsy(trade.highestPrice) \/ currentPrice > trade.highestPrice
              THEN currentPrice ELSE trade.highestPrice
        t1 == [trade EXCEPT !.highestPrice = hi]
    IN  IF Falsy(c.takeProfitPercentage) \/ Falsy(c.trailingStopPercentage)
        THEN trade
        ELSE IF ~c.trailingStopActivated
        THEN IF ChangeAtLeast(currentPrice, trade.entryPrice, c.takeProfitPercentage)
             THEN [t1 EXCEPT
                     !.sellConditions.trailingStopActivated = TRUE,
                     !.sellConditions.stepLevel = 1,
                     !.sellConditions.currStopPrice =
                         (currentPrice * (100 + c.trailingStopPercentage)) \div 100,
                     !.sellConditions.nextTargetPrice =
                         (currentPrice * (100 + c.takeProfitPercentage)) \div 100]
             ELSE t1
        ELSE IF ~Falsy(c.nextTargetPrice) /\ currentPrice >= c.nextTargetPrice
        THEN [t1 EXCEPT
                !.sellConditions.stepLevel = (IF Falsy(@) THEN 1 ELSE @) + 1,
                !.sellConditions.currStopPrice =
                    (currentPrice * (100 + c.trailingStopPercentage)) \div 100,
                !.sellConditions.nextTargetPrice =
                    (currentPrice * (100 + c.takeProfitPercentage)) \div 100]
        ELSE t1

\* updateTrailingStopLoss with a ratchet that puts the stop under the entry
\* price.
updateTrailingStopLossFromEntry(trade, currentPrice) ==
    LET c == trade.sellConditions
        hi == IF Falsy(trade.highestPrice) \/ currentPrice > trade.highestPrice
              THEN currentPrice ELSE trade.highestPrice
        t1 == [trade EXCEPT !.highestPrice = hi]
    IN  IF Falsy(c.takeProfitPercentage) \/ Falsy(c.trailingStopPercentage)
        THEN trade
        ELSE IF ~c.trailingStopActivated
        THEN IF ChangeAtLeast(currentPrice, trade.entryPrice, c.takeProfitPercentage)
             THEN [t1 EXCEPT
                     !.sellConditions.trailingStopActivated = TRUE,
                     !.sellConditions.stepLevel = (IF Falsy(@) THEN 1 ELSE @) + 1,
                     !.sellConditions.currStopPrice =
                         (currentPrice * (100 - c.trailingStopPercentage)) \div 100,
                     !.sellConditions.nextTargetPrice =
                         (currentPrice * (100 + c.takeProfitPercentage)) \div 100]
             ELSE t1
        ELSE IF ~Falsy(c.nextTargetPrice) /\ currentPrice >= c.nextTargetPrice
        THEN [t1 EXCEPT
                !.sellConditions.stepLevel = (IF Falsy(@) THEN 1 ELSE @) + 1,
                !.sellConditions.currStopPrice =
                    (trade.entryPrice * (100 - c.trailingStopPercentage)) \div 100,
                !.sellConditions.nextTargetPrice =
                    (currentPrice * (100 + c.takeProfitPercentage)) \div 100]
        ELSE t1

\* updateTrailingStopLoss: the stepped ratchet.  Nothing happens unless both
\* the take profit and the trailing percentage are set.
updateTrailingStopLoss(trade, currentPrice) ==
    LET c == trade.sellConditions
        hi == IF Falsy(trade.highestPrice) \/ currentPrice > trade.highestPrice
              THEN currentPrice ELSE trade.highestPrice
        t1 == [trade EXCEPT !.highestPrice = hi]
    IN  IF Falsy(c.takeProfitPercentage) \/ Falsy(c.trailingStopPercentage)
        THEN trade
        ELSE IF ~c.trailingStopActivated
        THEN IF ChangeAtLeast(currentPrice, trade.entryPrice, c.takeProfitPercentage)
             THEN [t1 EXCEPT
                     !.sellConditions.trailingStopActivated = TRUE,
                     !.sellConditions.stepLevel = 1,
                     !.sellConditions.currStopPrice =
                         (currentPrice * (100 - c.trailingStopPercentage)) \div 100,
                     !.sellConditions.nextTargetPrice =
                         (currentPrice * (100 + c.takeProfitPercentage)) \div 100]
             ELSE t1
        ELSE IF ~Falsy(c.nextTargetPrice) /\ currentPrice >= c.nextTargetPrice
        THEN [t1 EXCEPT
                !.sellConditions.stepLevel = (IF Falsy(@) THEN 1 ELSE @) + 1,
                !.sellConditions.currStopPrice =
                    (currentPrice * (100 - c.trailingStopPercentage)) \div 100,
                !.sellConditions.nextTargetPrice =
                    (currentPrice * (100 + c.takeProfitPercentage)) \div 100]
        ELSE t1

\* priceChangePercent <= -stopLossPercentage in checkSellConditions, where a
\* zero entry price makes the change 0.
DropAtLeast(currentPrice, entryPrice, pct) ==
    IF entryPrice > 0
    THEN (currentPrice - entryPrice) * 100 <= (0 - pct) * entryPrice
    ELSE 0 <= 0 - pct

\* priceChangePercent >= takeProfitPercentage in checkSellConditions.
GainAtLeast(currentPrice, entryPrice, pct) ==
    IF entryPrice > 0
    THEN (currentPrice - entryPrice) * 100 >= pct * entryPrice
    ELSE 0 >= pct

\* checkSellConditions with the stepped stop tested before the stop loss and
\* the take profit tested whatever the trailing percentage.
checkSellConditionsSteppedFirst(trade, currentPrice, holdReached) ==
    LET c == trade.sellConditions IN
    IF ~Falsy(c.maxHoldTimeMinutes) /\ holdReached
    THEN "max_hold"
    ELSE IF c.trailingStopActivated /\ ~Falsy(c.currStopPrice)
            /\ currentPrice <= c.currStopPrice
    THEN "stepped_stop"
    ELSE IF ~Falsy(c.stopLossPercentage)
            /\ DropAtLeast(currentPrice, trade.entryPrice, c.stopLossPercentage)
    THEN "stop_loss"
    ELSE IF ~Falsy(c.takeProfitPercentage)
            /\ GainAtLeast(currentPrice, trade.entryPrice, c.takeProfitPercentage)
    THEN "take_profit"
    ELSE IF ~Falsy(c.trailingStopPercentage) /\ Falsy(c.takeProfitPercentage)
            /\ ~Falsy(trade.highestPrice)
            /\ (currentPrice - trade.highestPrice) * 100
                 <= (0 - c.trailingStopPercentage) * trade.highestPrice
    THEN "trailing_stop"
    ELSE "none"

\* checkSellConditions: the exit selected for the trade at currentPrice, or
\* "none".  holdReached is the outcome of the hold time comparison.
checkSellConditions(trade, currentPrice, holdReached) ==
    LET c == trade.sellConditions IN
    IF ~Falsy(c.maxHoldTimeMinutes) /\ holdReached
    THEN "max_hold"
    ELSE IF ~Falsy(c.stopLossPercentage)
            /\ DropAtLeast(currentPrice, trade.entryPrice, c.stopLossPercentage)
    THEN "stop_loss"
    ELSE IF ~Falsy(c.takeProfitPercentage) /\ Falsy(c.trailingStopPercentage)
            /\ GainAtLeast(currentPrice, trade.entryPrice, c.takeProfitPercentage)
    THEN "take_profit"
    ELSE IF c.trailingStopActivated /\ ~Falsy(c.currStopPrice)
    THEN (IF currentPrice <= c.currStopPrice THEN "stepped_stop" ELSE "none")
    ELSE IF ~Falsy(c.trailingStopPercentage) /\ Falsy(c.takeProfitPercentage)
            /\ ~Falsy(trade.highestPrice)
            /\ (currentPrice - trade.highestPrice) * 100
                 <= (0 - c.trailingStopPercentage) * trade.highestPrice
    THEN "trailing_stop"
    ELSE "none"

\* Steps 3 and 4 of evaluateTrade: the object that updateTrade then persists.
PriceStep(trade, currentPrice) ==
    updateTrailingStopLoss(WithPrice(trade, currentPrice), currentPrice)

\* The trade of SpecTrail, at rest in the other specifications.
InitTrailVars ==
    /\ tTrade = NewTrade(1, "T1", U(100), 100, SellConditions(50, 20, 10, 0), 0)
    /\ tPrev = tTrade
    /\ tPrices = <<>>
    /\ tReason = "none"

\* -------------------------------------------------------------------------
\* TradeHistoryService: the store and its calls, one await point per step
\* -------------------------------------------------------------------------
Tokens == {"T1"}

NoTrade == [id |-> 0]

TradeIds == 1..MaxTrades

\* SpecStore follows the calls on one trade: calls on different trades write
\* different keys and different set members.
StoreIds == {1}

StoreClients == {"c1", "c2"}

StorePrices == {0, U(2)}

StoreEntryPrices == {0, U(1)}

StoreEntryAmount == 100

StoreExitAmounts == {0, StoreEntryAmount}

\* The sell conditions performSwap records with a buy.
DefaultConditions(trailing) == SellConditions(20, 10, trailing, 60)

InitStore ==
    /\ trades = [i \in TradeIds |-> NoTrade]
    /\ openSet = {}
    /\ closedSet = {}
    /\ agentIndex = {}
    /\ tokenIndex = [m \in Tokens |-> {}]
    /\ nextId = 1

\* A call of the store and what it did after reading the trade: "stored" (it
\* went on to storeTrade), "skipped" (updateTradePrice returned at once) or
\* "null" (closeTrade found no trade).
Call(op, id, result) == [op |-> op, id |-> id, result |-> result]

InitClients ==
    /\ cOp = [c \in StoreClients |-> "none"]
    /\ cPc = [c \in StoreClients |-> "idle"]
    /\ cTrade = [c \in StoreClients |-> NoTrade]
    /\ closedIds = {}
    /\ calls = 0
    /\ lastCall = Call("none", 0, "none")
    /\ events = 0

\* getTrade: the stored object, or null (NoTrade) for an unknown id.
getTrade(id) == trades[id]

\* ClosedTrade with the PnL taken for the exit value and the exit value
\* computed from the entry amount.
ClosedTradeGrossPnL(trade, exitPrice, exitAmount, reason, now) ==
    [trade EXCEPT
        !.status      = "closed",
        !.closedAt    = now,
        !.exitPrice   = exitPrice,
        !.exitAmount  = exitAmount,
        !.exitValue   = exitPrice * trade.entryAmount,
        !.sellReason  = reason,
        !.realizedPnL = exitPrice * exitAmount]

\* The object closeTrade writes back: status closed, the exit data and the PnL.
ClosedTrade(trade, exitPrice, exitAmount, reason, now) ==
    [trade EXCEPT
        !.status      = "closed",
        !.closedAt    = now,
        !.exitPrice   = exitPrice,
        !.exitAmount  = exitAmount,
        !.exitValue   = exitPrice * exitAmount,
        !.sellReason  = reason,
        !.realizedPnL = exitPrice * exitAmount - trade.entryValue]

\* A call enters storeTrade holding the object t.
EnterStore(c, op, t) ==
    /\ calls < MaxStoreCalls
    /\ calls' = calls + 1
    /\ cOp' = [cOp EXCEPT ![c] = op]
    /\ cPc' = [cPc EXCEPT ![c] = "setEx"]
    /\ cTrade' = [cTrade EXCEPT ![c] = t]
    /\ lastCall' = Call(op, t.id, "stored")
    /\ UNCHANGED events

\* createTrade up to its call of storeTrade.
CreateTradeCall(c, mint, entryPrice, trailing) ==
    /\ cPc[c] = "idle"
    /\ nextId \in StoreIds
    /\ EnterStore(c, "create",
                  NewTrade(nextId, mint, entryPrice, StoreEntryAmount,
                           DefaultConditions(trailing), 0))
    /\ nextId' = nextId + 1
    /\ UNCHANGED <<trades, openSet, closedSet, agentIndex, tokenIndex, closedIds>>

\* updateTradePrice without the test of the stored status.
updateTradePriceNoGuard(c, id, price) ==
    /\ cPc[c] = "idle"
    /\ IF getTrade(id) = NoTrade
       THEN /\ lastCall' = Call("updatePrice", id, "skipped")
            /\ UNCHANGED <<cOp, cPc, cTrade, calls, events>>
       ELSE EnterStore(c, "updatePrice", WithPrice(getTrade(id), price))
    /\ UNCHANGED <<storeVars, closedIds>>

\* updateTradePrice up to its call of storeTrade: it returns at once for an
\* unknown trade and for one whose stored status is not open.
updateTradePrice(c, id, price) ==
    /\ cPc[c] = "idle"
    /\ IF getTrade(id) = NoTrade \/ getTrade(id).status # "open"
       THEN /\ lastCall' = Call("updatePrice", id, "skipped")
            /\ UNCHANGED <<cOp, cPc, cTrade, calls, events>>
       ELSE EnterStore(c, "updatePrice", WithPrice(getTrade(id), price))
    /\ UNCHANGED <<storeVars, closedIds>>

\* The watcher's use of updateTrade: the object comes from getOpenTrades (the
\* ids of open_trades, each read with getTrade, with no test of its status),
\* is changed locally by the price step and handed to storeTrade.
updateTrade(c, id, price) ==
    /\ cPc[c] = "idle"
    /\ id \in openSet
    /\ getTrade(id) # NoTrade
    /\ EnterStore(c, "updateTrade", PriceStep(getTrade(id), price))
    /\ UNCHANGED <<storeVars, closedIds>>

\* closeTrade up to its call of storeTrade: null for an unknown trade; the
\* stored status is not looked at.
closeTrade(c, id, exitPrice, exitAmount) ==
    /\ cPc[c] = "idle"
    /\ IF getTrade(id) = NoTrade
       THEN /\ lastCall' = Call("close", id, "null")
            /\ UNCHANGED <<cOp, cPc, cTrade, calls, events>>
       ELSE EnterStore(c, "close",
                       ClosedTrade(getTrade(id), exitPrice, exitAmount, "sold", 1))
    /\ UNCHANGED <<storeVars, closedIds>>

\* storeTrade, first write: setEx of the trade key.
StoreSetEx(c) ==
    /\ cPc[c] = "setEx"
    /\ trades' = [trades EXCEPT ![cTrade[c].id] = cTrade[c]]
    /\ cPc' = [cPc EXCEPT ![c] = "agentIdx"]
    /\ UNCHANGED <<openSet, closedSet, agentIndex, tokenIndex, nextId,
                   cOp, cTrade, closedIds, calls, lastCall, events>>

\* storeTrade: sAdd to the agent index.
StoreAgentIdx(c) ==
    /\ cPc[c] = "agentIdx"
    /\ agentIndex' = agentIndex \cup {cTrade[c].id}
    /\ cPc' = [cPc EXCEPT ![c] = "tokenIdx"]
    /\ UNCHANGED <<trades, openSet, closedSet, tokenIndex, nextId,
                   cOp, cTrade, closedIds, calls, lastCall, events>>

\* storeTrade: sAdd to the token index.
StoreTokenIdx(c) ==
    /\ cPc[c] = "tokenIdx"
    /\ tokenIndex' = [tokenIndex EXCEPT ![cTrade[c].tokenMint] = @ \cup {cTrade[c].id}]
    /\ cPc' = [cPc EXCEPT ![c] = "statusAdd"]
    /\ UNCHANGED <<trades, openSet, closedSet, agentIndex, nextId,
                   cOp, cTrade, closedIds, calls, lastCall, events>>

\* storeTrade: sAdd to the set of the object's status.
StoreStatusAdd(c) ==
    /\ cPc[c] = "statusAdd"
    /\ IF cTrade[c].status = "open"
       THEN openSet' = openSet \cup {cTrade[c].id} /\ UNCHANGED closedSet
       ELSE closedSet' = closedSet \cup {cTrade[c].id} /\ UNCHANGED openSet
    /\ cPc' = [cPc EXCEPT ![c] = "statusRem"]
    /\ UNCHANGED <<trades, agentIndex, tokenIndex, nextId, cOp, cTrade, closedIds,
                   calls, lastCall, events>>

\* storeTrade: sRem from the other status set; the call then returns.
StoreStatusRem(c) ==
    /\ cPc[c] = "statusRem"
    /\ IF cTrade[c].status = "open"
       THEN closedSet' = closedSet \ {cTrade[c].id} /\ UNCHANGED openSet
       ELSE openSet' = openSet \ {cTrade[c].id} /\ UNCHANGED closedSet
    /\ closedIds' = IF cOp[c] = "close" THEN closedIds \cup {cTrade[c].id}
                    ELSE closedIds
    /\ cPc' = [cPc EXCEPT ![c] = "idle"]
    /\ cOp' = [cOp EXCEPT ![c] = "none"]
    /\ events' = events + 1   \* emit('trade_update'), then the caller's broadcasts
    /\ UNCHANGED <<trades, agentIndex, tokenIndex, nextId, cTrade, calls, lastCall>>

\* storeTrade in one step, for a caller that no other writer of the same
\* trade can interleave with.
storeTrade(t) ==
    /\ trades' = [trades EXCEPT ![t.id] = t]
    /\ agentIndex' = agentIndex \cup {t.id}
    /\ tokenIndex' = [tokenIndex EXCEPT ![t.tokenMint] = @ \cup {t.id}]
    /\ IF t.status = "open"
       THEN openSet' = openSet \cup {t.id} /\ closedSet' = closedSet \ {t.id}
       ELSE closedSet' = closedSet \cup {t.id} /\ openSet' = openSet \ {t.id}

\* -------------------------------------------------------------------------
\* The price cache and the watcher at rest
\* -------------------------------------------------------------------------
NoEval == [id |-> 0, maxHold |-> 0, held |-> 0, priceState |-> "absent",
           step |-> "skip", reason |-> "none", sellCalled |-> FALSE,
           sellSuccess |-> FALSE, noBalance |-> FALSE, closeCalled |-> FALSE]

InitCache ==
    /\ pPrice = [m \in Tokens |-> Undef]
    /\ pErr = [m \in Tokens |-> FALSE]

DiscoverCallers == {"loop", "filter"}

InitPrice ==
    /\ pSource = [m \in Tokens |-> "none"]
    /\ pInterest = [m \in Tokens |-> FALSE]
    /\ dPc = [c \in DiscoverCallers |-> "idle"]
    /\ dMint = [c \in DiscoverCallers |-> "T1"]

Handlers == {"h1", "h2"}

InitCore ==
    /\ processed = {}
    /\ predFailed = {}
    /\ retryCount = [m \in Tokens |-> 0]
    /\ hPc = [h \in Handlers |-> "idle"]
    /\ hMint = [h \in Handlers |-> "T1"]
    /\ hCount = [h \in Handlers |-> 0]
    /\ consecNon = [m \in Tokens |-> 0]
    /\ deliveries = 0

InitWatch ==
    /\ wMode = "paper"
    /\ clock = 0
    /\ wallet = [m \in Tokens |-> 0]
    /\ sellCalls = [i \in TradeIds |-> 0]
    /\ sellOk = [i \in TradeIds |-> 0]
    /\ lastEval = NoEval
    /\ evals = 0

\* -------------------------------------------------------------------------
\* MindmapFilterEngine: criteria, snapshots and results
\* -------------------------------------------------------------------------
\* FilterCriteria.  An optional threshold that is not set is Undef (FALSE for
\* requireSmartMoney); the code's truthiness tests take a threshold of 0 for
\* unset as well.
Criteria(volume, kols, influence, tradeCount, viral, smart, consensus, cap, liquidity) ==
    [minTradeVolume |-> volume, minConnectedKOLs |-> kols,
     minInfluenceScore |-> influence, minTotalTrades |-> tradeCount,
     minViralVelocity |-> viral, requireSmartMoney |-> smart,
     minConsensusScore |-> consensus, minMarketCapUsd |-> cap,
     minLiquidityUsd |-> liquidity]

\* One entry of kolConnections.  active: lastTradeTime lies within the last
\* minute; buys: tradeTypes includes 'buy'.
Connection(volume, influence, active, buys) ==
    [totalVolume |-> volume, influenceScore |-> influence,
     active |-> active, buys |-> buys]

\* MindmapData.  native: tokenMint is the native SOL address.
Snapshot(native, conns, totalTrades) ==
    [native |-> native, conns |-> conns, totalTrades |-> totalTrades]

NoResult == [passed |-> FALSE, reason |-> "not_evaluated"]

\* The filter engine at rest in the other specifications.
InitFilterIdle ==
    /\ fCriteria = Criteria(1000, 3, 50, 5, Undef, FALSE, Undef, 0, 0)
    /\ fData = Snapshot(FALSE, <<>>, 0)
    /\ fResult = NoResult


\* -------------------------------------------------------------------------
\* PredictionService values
\* -------------------------------------------------------------------------

\* A probability is kept in thousandths; a confidence, a percentage, in
\* thousandths of a percent, so that (probability * 100) is exact.
Percent(x) == x * 1000

NoAnswer == [kind |-> "none"]

NoPrediction == [classLabel |-> "none", probability |-> 0, confidence |-> 0,
                 approved |-> FALSE, failed |-> FALSE]

InitPredictIdle ==
    /\ qPc = "idle"
    /\ qAttempt = 0
    /\ qOps = 0
    /\ qDelay = 0
    /\ qAnswer = NoAnswer
    /\ qResult = NoPrediction
    /\ qCalls = 0


\* -------------------------------------------------------------------------
\* Mindmap snapshots and trade results
\* -------------------------------------------------------------------------

\* The payloads (event.data) a mindmap_update event can carry.
MindmapPayloads == {1, 2}

NoEvent == [tokenMint |-> "none", data |-> 0]

MindmapEvent(m, d) == [tokenMint |-> m, data |-> d]

InitExecute ==
    /\ mindmap = [m \in Tokens |-> 0]
    /\ hSwaps = [h \in Handlers |-> 0]
    /\ hSuccess = [h \in Handlers |-> "none"]
    /\ lastEvent = NoEvent
    /\ redo = "none"
    /\ redoSnap = 0


\* -------------------------------------------------------------------------
\* PaperWalletService values
\* -------------------------------------------------------------------------
LedgerCallers == {"a1", "a2"}

\* A hash field holds the decimal string of a number, or is absent.
NoField == [text |-> "nil", number |-> 0]

toString(n) == [text |-> "decimal", number |-> n]

\* balance ? parseFloat(balance) : 0 (a decimal string is never empty).
parseBalance(field) == IF field = NoField THEN 0 ELSE field.number

NoLedgerOp == [kind |-> "none", amount |-> 0]

InitLedger ==
    /\ lBalance = NoField
    /\ lPc = [c \in LedgerCallers |-> "idle"]
    /\ lOp = [c \in LedgerCallers |-> NoLedgerOp]
    /\ lRead = [c \in LedgerCallers |-> 0]
    /\ lDeposited = 0
    /\ lWithdrawn = 0
    /\ lCalls = 0


\* -------------------------------------------------------------------------
\* Tickers: the watcher's intervals and the worker's two loops
\* -------------------------------------------------------------------------
WatcherTickers == {"tick", "heartbeat"}

WorkerTickers == {"monitor", "discovery"}

Tickers == WatcherTickers \cup WorkerTickers

Timer(id, kind) == [id |-> id, kind |-> kind]

InitTickers ==
    /\ kCheck = 0
    /\ kTimers = {}
    /\ kNextTimer = 1
    /\ kMon = FALSE
    /\ kWorker = "new"
    /\ kLoops = {}
    /\ kStopped = [g \in {"watcher", "worker"} |-> FALSE]
    /\ kAfter = [k \in Tickers |-> 0]
    /\ kTicks = [k \in Tickers |-> 0]
    /\ kStarts = 0


\* -------------------------------------------------------------------------
\* The watcher's processing cycle
\* -------------------------------------------------------------------------
\* Calls of processOpenTrades that can be pending at once: the first run of
\* start and the callbacks of the interval.
CycleCalls == {"r1", "r2"}

CycleIds == {1, 2}

InitCycle ==
    /\ yProcessing = FALSE
    /\ yPc = [r \in CycleCalls |-> "idle"]
    /\ yEval = [r \in CycleCalls |-> [id \in CycleIds |-> "none"]]
    /\ yInFlight = {}
    /\ ySwaps = [id \in CycleIds |-> 0]
    /\ yStatus = [id \in CycleIds |-> "none"]
    /\ yLastTick = "none"
    /\ yTicks = 0


\* -------------------------------------------------------------------------
\* Trade updates of the followed wallets (kol_trade_update)
\* -------------------------------------------------------------------------
UpdateHandlers == {"u1", "u2"}

UpdateMints == {"T1", "T2"}

Wallets == {"k1", "k2"}

NoSnapshot == [absent |-> TRUE]

NoConnection == [absent |-> TRUE]

NoActorTrade == [absent |-> TRUE]

\* totalTrades is not followed for a mint whose snapshot was replaced or
\* dropped while an update of it was pending.
Untracked == 0 - 1

InitUpdate ==
    /\ uSnap = [m \in UpdateMints |-> NoSnapshot]
    /\ uPc = [h \in UpdateHandlers |-> "idle"]
    /\ uEvent = [h \in UpdateHandlers |-> NoActorTrade]
    /\ uQueue = [h \in UpdateHandlers |-> <<>>]
    /\ uData = [h \in UpdateHandlers |-> NoSnapshot]
    /\ uExpected = [m \in UpdateMints |-> Untracked]
    /\ uEvents = 0


\* -------------------------------------------------------------------------
\* The WebSocket manager
\* -------------------------------------------------------------------------
InitSocket ==
    /\ socket = "none"
    /\ reconnectAttempts = 0
    /\ isReconnecting = FALSE
    /\ shouldReconnect = TRUE
    /\ sTimer = FALSE
    /\ sCaller = "start"
    /\ sOpened = 0
    /\ sLost = FALSE
    /\ sMaxReached = FALSE
    /\ sDisconnectCalled = FALSE
    /\ sForwarded = 0


\* -------------------------------------------------------------------------
\* The pending-trade lock
\* -------------------------------------------------------------------------
LockCallers == {"p1", "p2"}

LockMints == {"T1", "T2"}

LockEvent(op, c, m, result) ==
    [op |-> op, caller |-> c, mint |-> m, result |-> result]

InitLock ==
    /\ nLock = [m \in LockMints |-> FALSE]
    /\ nOwner = [m \in LockMints |-> "none"]
    /\ nHolds = [c \in LockCallers |-> [m \in LockMints |-> FALSE]]
    /\ nLast = LockEvent("none", "none", "none", FALSE)
    /\ nCalls = 0

\* -------------------------------------------------------------------------
\* Specification SpecStore: concurrent callers of the trade store
\* -------------------------------------------------------------------------
InitStoreSpec ==
    /\ InitStore
    /\ InitClients
    /\ InitTrailVars
    /\ InitCache
    /\ InitPrice
    /\ InitWatch
    /\ InitCore
    /\ InitLock
    /\ InitSocket
    /\ InitUpdate
    /\ InitCycle
    /\ InitTickers
    /\ InitLedger
    /\ InitExecute
    /\ InitPredictIdle
    /\ InitFilterIdle

NextStore ==
    \E c \in StoreClients :
        \/ \E p \in StoreEntryPrices, tr \in {0, 10} : CreateTradeCall(c, "T1", p, tr) /\ UNCHANGED storeFrame
        \/ \E id \in StoreIds, p \in StorePrices :
              /\ updateTradePrice(c, id, p)
              /\ UNCHANGED storeFrame
        \/ \E id \in StoreIds, p \in StorePrices :
              /\ updateTrade(c, id, p)
              /\ UNCHANGED storeFrame
        \/ \E id \in StoreIds, p \in StorePrices, a \in StoreExitAmounts :
              \* callers take the id from getOpenTrades, or pass an id the
              \* store has no trade for
              /\ id \in openSet \/ getTrade(id) = NoTrade
              /\ closeTrade(c, id, p, a)
              /\ UNCHANGED storeFrame
        \/ StoreSetEx(c) /\ UNCHANGED storeFrame
        \/ StoreAgentIdx(c) /\ UNCHANGED storeFrame
        \/ StoreTokenIdx(c) /\ UNCHANGED storeFrame
        \/ StoreStatusAdd(c) /\ UNCHANGED storeFrame
        \/ StoreStatusRem(c) /\ UNCHANGED storeFrame

SpecStore == InitStoreSpec /\ [][NextStore]_vars

\* -------------------------------------------------------------------------
\* AgentLedgerTools.performSwap for a sell, and the watcher's evaluation
\* -------------------------------------------------------------------------
\* A message is the sequence of its words; String.includes is the test for a
\* contiguous run of words.
Includes(msg, pat) ==
    \E i \in 0..(Len(msg) - Len(pat)) : SubSeq(msg, i + 1, i + Len(pat)) = pat

MsgRealNoBalance == <<"Insufficient", "token", "balance", "for", "sell", "trade">>

MsgPaperNoBalance == <<"Insufficient", "Paper", "Token", "Balance">>

MsgNoTokenBalanceFound == <<"No", "token", "balance", "found">>

MsgAmountZero == <<"Amount", "must", "be", "greater", "than", "0">>

MsgNoSimPrice == <<"Could", "not", "fetch", "token", "price", "for", "simulation">>

MsgSwapOk == <<"Swap", "successful">>

\* What the swap backend answers: success, or one of its failures.
Backends == {"ok", "failed", "funds"}

BackendMessage(backend) ==
    IF backend = "funds" THEN <<"insufficient", "funds">> ELSE <<"Swap", "failed">>

\* The execution price of the backend's answer; 0 when the answer has no rate.
ExecPrices == {0, U(90)}

\* executeSell's test of a failure message.
IsForceCloseMessage(msg) ==
    \/ Includes(msg, <<"No", "token", "balance">>)
    \/ Includes(msg, <<"insufficient", "funds">>)
    \/ Includes(msg, <<"Insufficient", "Paper">>)

SwapResult(success, message, sold) ==
    [success |-> success, message |-> message, sold |-> sold]

\* validateTradeBalance for a sell: it fails on a zero balance.
validateTradeBalance(balance) ==
    IF balance = 0
    THEN [success |-> FALSE, message |-> MsgRealNoBalance, available |-> 0]
    ELSE [success |-> TRUE, message |-> <<"Token", "balance", "validated">>,
          available |-> balance]

\* validateTradeBalanceMock for a sell: it fails below the required amount.
validateTradeBalanceMock(balance, amount) ==
    IF balance < amount
    THEN [success |-> FALSE, message |-> MsgPaperNoBalance, available |-> balance]
    ELSE [success |-> TRUE, message |-> <<"Paper", "Token", "Balance", "validated">>,
          available |-> balance]

\* performSwapMock for a sell.
performSwapMock(balance, amount, backend) ==
    IF amount = 0 THEN SwapResult(FALSE, MsgAmountZero, 0)
    ELSE IF backend # "ok" THEN SwapResult(FALSE, MsgNoSimPrice, 0)
    ELSE IF balance < amount THEN SwapResult(FALSE, MsgPaperNoBalance, 0)
    ELSE SwapResult(TRUE, <<"Paper">> \o MsgSwapOk, amount)

\* performSwap for a sell of `amount` from a wallet holding `balance`.  The
\* real path sells the whole validated balance.
performSwapSell(mode, balance, amount, backend) ==
    IF mode = "paper"
    THEN LET v == validateTradeBalanceMock(balance, amount) IN
         IF ~v.success THEN SwapResult(FALSE, v.message, 0)
         ELSE performSwapMock(balance,
                              IF v.available < amount THEN v.available ELSE amount,
                              backend)
    ELSE LET v == validateTradeBalance(balance) IN
         IF ~v.success THEN SwapResult(FALSE, v.message, 0)
         ELSE IF v.available = 0 THEN SwapResult(FALSE, MsgNoTokenBalanceFound, 0)
         ELSE IF backend # "ok" THEN SwapResult(FALSE, BackendMessage(backend), 0)
         ELSE SwapResult(TRUE, MsgSwapOk, v.available)

EvalPlan(step, reason, price, trade, write) ==
    [step |-> step, reason |-> reason, price |-> price, trade |-> trade,
     write |-> write]

\* evaluateTradePlan with an errored price sold like any other exit, and an
\* absent price treated as a price of 0.
evaluateTradePlanErrorSells(trade, nowMin, price, err) ==
    LET c == trade.sellConditions
        held == nowMin - trade.openedAt
    IN
    IF ~Falsy(c.maxHoldTimeMinutes) /\ held >= c.maxHoldTimeMinutes
    THEN EvalPlan("sell", "max_hold", IF price = Undef THEN 0 ELSE price,
                  trade, FALSE)
    ELSE IF price = Undef /\ err
    THEN EvalPlan("sell", "pricing_error", 0, trade, FALSE)
    ELSE LET q == IF price = Undef THEN 0 ELSE price
             t2 == PriceStep(trade, q)
             r == checkSellConditions(t2, q, FALSE)
         IN EvalPlan(IF r = "none" THEN "hold" ELSE "sell", r, q, t2, TRUE)

\* A mutant of evaluateTradePlan: the price lookup comes first.
evaluateTradePlanPriceFirst(trade, nowMin, price, err) ==
    LET c == trade.sellConditions
        held == nowMin - trade.openedAt
    IN
    IF price = Undef
    THEN (IF err THEN EvalPlan("forceClose", "pricing_error", 0, trade, FALSE)
          ELSE EvalPlan("skip", "none", 0, trade, FALSE))
    ELSE IF ~Falsy(c.maxHoldTimeMinutes) /\ held >= c.maxHoldTimeMinutes
    THEN EvalPlan("sell", "max_hold", price, trade, FALSE)
    ELSE LET t2 == PriceStep(trade, price)
             r == checkSellConditions(t2, price, FALSE)
         IN EvalPlan(IF r = "none" THEN "hold" ELSE "sell", r, price, t2, TRUE)

\* evaluateTrade up to its call of executeSell or closeTrade: what it decides
\* for the trade at time nowMin with the cache holding price (Undef: absent)
\* and the error flag err.
evaluateTradePlan(trade, nowMin, price, err) ==
    LET c == trade.sellConditions
        held == nowMin - trade.openedAt
    IN
    IF ~Falsy(c.maxHoldTimeMinutes) /\ held >= c.maxHoldTimeMinutes
    THEN EvalPlan("sell", "max_hold", IF price = Undef THEN 0 ELSE price,
                  trade, FALSE)
    ELSE IF price = Undef
    THEN (IF err THEN EvalPlan("forceClose", "pricing_error", 0, trade, FALSE)
          ELSE EvalPlan("skip", "none", 0, trade, FALSE))
    ELSE LET t2 == PriceStep(trade, price)
             r == checkSellConditions(t2, price, FALSE)
         IN EvalPlan(IF r = "none" THEN "hold" ELSE "sell", r, price, t2, TRUE)

PriceState(price, err) ==
    IF price # Undef THEN "present" ELSE IF err THEN "errored" ELSE "absent"

\* One evaluation of an open trade by processOpenTrades: evaluateTrade with
\* the executeSell, performSwap and closeTrade calls it makes.  No other
\* evaluation of the watcher overlaps it (isProcessing), so processingTrades
\* is empty when it starts and when it ends.
WatcherEvaluate(id, backend, execPrice, closeOk) ==
    /\ evals < MaxEvals
    /\ id \in openSet
    /\ getTrade(id) # NoTrade
    /\ LET trade == getTrade(id)
           mint == trade.tokenMint
           plan == evaluateTradePlan(trade, clock, pPrice[mint], pErr[mint])
           sell == plan.step = "sell"
           res == performSwapSell(wMode, wallet[mint], trade.entryAmount, backend)
           sold == sell /\ res.success
           force == sell /\ ~res.success /\ IsForceCloseMessage(res.message)
           closeCalled == sold \/ force \/ plan.step = "forceClose"
           base == IF plan.write THEN plan.trade ELSE trade
           exitPrice == IF sold /\ execPrice # 0 THEN execPrice
                        ELSE IF plan.step = "forceClose" THEN 0
                        ELSE plan.price
           exitAmount == IF sold THEN (IF res.sold # 0 THEN res.sold
                                       ELSE trade.entryAmount)
                         ELSE IF force THEN 0
                         ELSE trade.entryAmount
           reason == IF force THEN "force_close" ELSE plan.reason
       IN
       /\ IF closeCalled /\ closeOk
          THEN storeTrade(ClosedTrade(base, exitPrice, exitAmount, reason, clock))
          ELSE IF plan.write
          THEN storeTrade(base)
          ELSE UNCHANGED <<trades, openSet, closedSet, agentIndex, tokenIndex>>
       /\ wallet' = IF sold THEN [wallet EXCEPT ![mint] = @ - res.sold] ELSE wallet
       /\ sellCalls' = IF sell THEN [sellCalls EXCEPT ![id] = @ + 1] ELSE sellCalls
       /\ sellOk' = IF sold THEN [sellOk EXCEPT ![id] = @ + 1] ELSE sellOk
       /\ lastEval' = [id |-> id,
                       maxHold |-> trade.sellConditions.maxHoldTimeMinutes,
                       held |-> clock - trade.openedAt,
                       priceState |-> PriceState(pPrice[mint], pErr[mint]),
                       step |-> plan.step,
                       reason |-> plan.reason,
                       sellCalled |-> sell,
                       sellSuccess |-> sold,
                       noBalance |-> sell /\ wallet[mint] = 0,
                       closeCalled |-> closeCalled]
    /\ evals' = evals + 1
    /\ UNCHANGED <<nextId, wMode, clock, cacheVars, watchFrame>>

\* A buy that succeeded: performSwap puts the tokens into the wallet and
\* records the position.  Here the bot buys a token it holds no open position
\* in.
WatchMaxHolds == {1}

\* SpecWatcher follows one position: the evaluations of different trades
\* share nothing but the wallet.
WatchIds == {1}

WatchEntryPrice == U(100)

OpenPosition(mint, maxHold) ==
    /\ nextId \in WatchIds
    /\ \A i \in openSet : trades[i] = NoTrade \/ trades[i].tokenMint # mint
    /\ storeTrade(NewTrade(nextId, mint, WatchEntryPrice, StoreEntryAmount,
                           SellConditions(20, 10, 0, maxHold), clock))
    /\ nextId' = nextId + 1
    /\ wallet' = [wallet EXCEPT ![mint] = @ + StoreEntryAmount]
    /\ UNCHANGED <<wMode, clock, sellCalls, sellOk, lastEval, evals,
                   cacheVars, watchFrame>>

\* A minute passes.
Tick ==
    /\ clock < MaxClock
    /\ clock' = clock + 1
    /\ UNCHANGED <<storeVars, wMode, wallet, sellCalls, sellOk, lastEval, evals,
                   cacheVars, watchFrame>>

\* The price monitor changes what the cache holds for a token.
WatchPrices == {Undef, U(80), U(100)}

PriceFeed(mint, price, err) ==
    /\ <<price, err>> # <<pPrice[mint], pErr[mint]>>
    /\ pPrice' = [pPrice EXCEPT ![mint] = price]
    /\ pErr' = [pErr EXCEPT ![mint] = err]
    /\ UNCHANGED <<storeVars, watchVars, watchFrame>>

\* Tokens leave or reach the wallet from outside the bot.
WalletBalances == {0, StoreEntryAmount}

WalletTransfer(mint, balance) ==
    /\ balance # wallet[mint]
    /\ wallet' = [wallet EXCEPT ![mint] = balance]
    /\ UNCHANGED <<storeVars, wMode, clock, sellCalls, sellOk, lastEval, evals,
                   cacheVars, watchFrame>>

\* -------------------------------------------------------------------------
\* Specification SpecWatcher: positions, the clock, the price cache, the
\* wallet and the watcher's evaluations
\* -------------------------------------------------------------------------
InitWatcher ==
    /\ InitStore
    /\ InitClients
    /\ InitTrailVars
    /\ InitCache
    /\ InitPrice
    /\ wMode \in {"real", "paper"}
    /\ clock = 0
    /\ wallet = [m \in Tokens |-> 0]
    /\ sellCalls = [i \in TradeIds |-> 0]
    /\ sellOk = [i \in TradeIds |-> 0]
    /\ lastEval = NoEval
    /\ evals = 0
    /\ InitCore
    /\ InitLock
    /\ InitSocket
    /\ InitUpdate
    /\ InitCycle
    /\ InitTickers
    /\ InitLedger
    /\ InitExecute
    /\ InitPredictIdle
    /\ InitFilterIdle

NextWatcher ==
    \/ \E m \in Tokens, h \in WatchMaxHolds : OpenPosition(m, h)
    \/ Tick
    \/ \E m \in Tokens, p \in WatchPrices, e \in BOOLEAN : PriceFeed(m, p, e)
    \/ \E m \in Tokens, b \in WalletBalances : WalletTransfer(m, b)
    \/ \E id \in WatchIds, b \in Backends, x \in ExecPrices, ok \in BOOLEAN :
          WatcherEvaluate(id, b, x, ok)

SpecWatcher == InitWatcher /\ [][NextWatcher]_vars

\* -------------------------------------------------------------------------
\* BatchPriceService: the monitor loop, the discovery loop and discoverToken
\* -------------------------------------------------------------------------
MonitorPrices == {U(1), U(2)}

Sources == {"PumpFun", "LaunchLab", "Raydium"}

\* addTokenInterest: setEx monitor_active:<mint>.
addTokenInterest(m) ==
    /\ ~pInterest[m]
    /\ pInterest' = [pInterest EXCEPT ![m] = TRUE]
    /\ UNCHANGED <<cacheVars, pSource, dPc, dMint, priceFrame>>

\* runMonitorLoop for a mint of the interest set that a fast path resolves:
\* one MULTI sets the price and deletes the error entry.
MonitorTick(m, price) ==
    /\ pInterest[m]
    /\ pPrice' = [pPrice EXCEPT ![m] = price]
    /\ pErr' = [pErr EXCEPT ![m] = FALSE]
    /\ UNCHANGED <<priceVars, priceFrame>>

\* runDiscoveryLoop for a mint: the three reads, then the call of
\* discoverToken up to its await of sdk.getTokenPrice.
DiscoveryLoopCall(m) ==
    /\ dPc["loop"] = "idle"
    /\ pInterest[m]
    /\ pPrice[m] = Undef /\ ~pErr[m]
    /\ pSource[m] \in {"none", "LaunchLab"}
    /\ dPc' = [dPc EXCEPT !["loop"] = "fetching"]
    /\ dMint' = [dMint EXCEPT !["loop"] = m]
    /\ UNCHANGED <<cacheVars, pSource, pInterest, priceFrame>>

\* The filter engine's one-off discovery when getCachedPrice gave no price.
FilterDiscoverCall(m) ==
    /\ dPc["filter"] = "idle"
    /\ pPrice[m] = Undef
    /\ dPc' = [dPc EXCEPT !["filter"] = "fetching"]
    /\ dMint' = [dMint EXCEPT !["filter"] = m]
    /\ UNCHANGED <<cacheVars, pSource, pInterest, priceFrame>>

\* discoverToken after sdk.getTokenPrice has answered: on a price, one MULTI
\* sets price and source and deletes the error entry; on nothing or a throw,
\* setEx of the error entry alone.
DiscoverReturn(c, found, price, source) ==
    /\ dPc[c] = "fetching"
    /\ LET m == dMint[c] IN
       IF found
       THEN /\ pPrice' = [pPrice EXCEPT ![m] = price]
            /\ pSource' = [pSource EXCEPT ![m] = source]
            /\ pErr' = [pErr EXCEPT ![m] = FALSE]
       ELSE /\ pErr' = [pErr EXCEPT ![m] = TRUE]
            /\ UNCHANGED <<pPrice, pSource>>
    /\ dPc' = [dPc EXCEPT ![c] = "idle"]
    /\ UNCHANGED <<pInterest, dMint, priceFrame>>

\* TTL expirations of the four kinds of key.
ExpirePrice(m) ==
    /\ pPrice[m] # Undef
    /\ pPrice' = [pPrice EXCEPT ![m] = Undef]
    /\ UNCHANGED <<pErr, priceVars, priceFrame>>

ExpireError(m) ==
    /\ pErr[m]
    /\ pErr' = [pErr EXCEPT ![m] = FALSE]
    /\ UNCHANGED <<pPrice, priceVars, priceFrame>>

ExpireSource(m) ==
    /\ pSource[m] # "none"
    /\ pSource' = [pSource EXCEPT ![m] = "none"]
    /\ UNCHANGED <<cacheVars, pInterest, dPc, dMint, priceFrame>>

ExpireInterest(m) ==
    /\ pInterest[m]
    /\ pInterest' = [pInterest EXCEPT ![m] = FALSE]
    /\ UNCHANGED <<cacheVars, pSource, dPc, dMint, priceFrame>>

\* -------------------------------------------------------------------------
\* Specification SpecPrice: the price cache under its writers
\* -------------------------------------------------------------------------
InitPriceSpec ==
    /\ InitStore
    /\ InitClients
    /\ InitTrailVars
    /\ InitCache
    /\ InitPrice
    /\ InitWatch
    /\ InitCore
    /\ InitLock
    /\ InitSocket
    /\ InitUpdate
    /\ InitCycle
    /\ InitTickers
    /\ InitLedger
    /\ InitExecute
    /\ InitPredictIdle
    /\ InitFilterIdle

NextPrice ==
    \E m \in Tokens :
        \/ addTokenInterest(m)
        \/ \E p \in MonitorPrices : MonitorTick(m, p)
        \/ DiscoveryLoopCall(m)
        \/ FilterDiscoverCall(m)
        \/ \E c \in DiscoverCallers, f \in BOOLEAN, p \in MonitorPrices,
              src \in Sources : DiscoverReturn(c, f, p, src)
        \/ ExpirePrice(m)
        \/ ExpireError(m)
        \/ ExpireSource(m)
        \/ ExpireInterest(m)

SpecPrice == InitPriceSpec /\ [][NextPrice]_vars

\* -------------------------------------------------------------------------
\* BotCoreEngine: handleMindmapUpdate -> processToken -> evaluateAndExecute
\* -> TradeExecutor.execute, one await point per step
\* -------------------------------------------------------------------------
MAX_PREDICTION_RETRIES == 3

HandlerIdle(h) == hPc' = [hPc EXCEPT ![h] = "idle"]

HandlerAt(h, pc) == hPc' = [hPc EXCEPT ![h] = pc]

\* The mint of wrapped SOL, which handleMindmapUpdate and evaluate turn away.
NATIVE_SOL_ADDRESS == "So11111111111111111111111111111111111111112"

\* The mints a mindmap_update event can carry.
EventMints == Tokens \cup {NATIVE_SOL_ADDRESS}

\* handleMindmapUpdate without the test for the native SOL mint.
HandleMindmapUpdateNoNativeCheck(h, m, d) ==
    /\ hPc[h] = "idle"
    /\ deliveries < MaxDeliveries
    /\ deliveries' = deliveries + 1
    /\ hMint' = [hMint EXCEPT ![h] = m]
    /\ HandlerAt(h, "check1")
    /\ mindmap' = IF m \in Tokens THEN [mindmap EXCEPT ![m] = d] ELSE mindmap
    /\ hSwaps' = [hSwaps EXCEPT ![h] = 0]
    /\ hSuccess' = [hSuccess EXCEPT ![h] = "none"]
    /\ lastEvent' = MindmapEvent(m, d)
    /\ IF /\ lastEvent = MindmapEvent(m, d)
          /\ \A y \in Handlers : hPc[y] = "idle"
          /\ m \in Tokens
       THEN redo' = h /\ redoSnap' = mindmap[m]
       ELSE redo' = "none" /\ redoSnap' = 0
    /\ UNCHANGED <<processed, predFailed, retryCount, hCount, consecNon,
                   storeVars, wallet, coreRest>>

\* A mindmap_update event reaches the engine; its handler is not awaited, so
\* handlers of several events run interleaved.  An event for the native SOL
\* mint is dropped at once; for any other mint cacheMindmapData stores the
\* payload under the mint's key.
\* hMint keeps the mint of the last event the handler took, dropped or not.
\* redo names the handler of an event that repeats the event handled last,
\* delivered when that handling is over and no other handler runs; redoSnap
\* is the snapshot the earlier handling left.
HandleMindmapUpdate(h, m, d) ==
    /\ hPc[h] = "idle"
    /\ deliveries < MaxDeliveries
    /\ deliveries' = deliveries + 1
    /\ hMint' = [hMint EXCEPT ![h] = m]
    /\ IF m = NATIVE_SOL_ADDRESS
       THEN /\ HandlerIdle(h)
            /\ UNCHANGED executeVars
       ELSE /\ HandlerAt(h, "check1")
            /\ mindmap' = [mindmap EXCEPT ![m] = d]
            /\ hSwaps' = [hSwaps EXCEPT ![h] = 0]
            /\ hSuccess' = [hSuccess EXCEPT ![h] = "none"]
            /\ lastEvent' = MindmapEvent(m, d)
            /\ IF /\ lastEvent = MindmapEvent(m, d)
                  /\ \A y \in Handlers : hPc[y] = "idle"
               THEN redo' = h /\ redoSnap' = mindmap[m]
               ELSE redo' = "none" /\ redoSnap' = 0
    /\ UNCHANGED <<processed, predFailed, retryCount, hCount, consecNon,
                   storeVars, wallet, coreRest>>

\* handleMindmapUpdate: isTokenProcessed.
CheckProcessed(h) ==
    /\ hPc[h] = "check1"
    /\ IF hMint[h] \in processed THEN HandlerIdle(h) ELSE HandlerAt(h, "check2")
    /\ UNCHANGED <<processed, predFailed, retryCount, hMint, hCount, consecNon,
                   deliveries, storeVars, wallet, coreFrame>>

\* processToken: isTokenProcessed once more.
ProcessToken(h) ==
    /\ hPc[h] = "check2"
    /\ IF hMint[h] \in processed THEN HandlerIdle(h)
       ELSE HandlerAt(h, "checkFailed")
    /\ UNCHANGED <<processed, predFailed, retryCount, hMint, hCount, consecNon,
                   deliveries, storeVars, wallet, coreFrame>>

\* processToken: isInSet(prediction_failed), then evaluateAndExecute up to
\* its call of the prediction service: the filter, which is synchronous, and
\* the read of the retry counter, whose value is only logged.
CheckPredictionFailed(h, passed) ==
    /\ hPc[h] = "checkFailed"
    /\ IF hMint[h] \in predFailed \/ ~passed THEN HandlerIdle(h)
       ELSE HandlerAt(h, "predict")
    /\ UNCHANGED <<processed, predFailed, retryCount, hMint, hCount, consecNon,
                   deliveries, storeVars, wallet, coreFrame>>

\* predictionService.predict has answered.
PredictReturn(h, approved) ==
    /\ hPc[h] = "predict"
    /\ IF approved
       THEN /\ HandlerAt(h, "swap")
            /\ consecNon' = [consecNon EXCEPT ![hMint[h]] = 0]
       ELSE /\ HandlerAt(h, "incRead")
            /\ consecNon' = [consecNon EXCEPT ![hMint[h]] = @ + 1]
    /\ UNCHANGED <<processed, predFailed, retryCount, hMint, hCount,
                   deliveries, storeVars, wallet, coreFrame>>

\* incrementPredictionRetryCount: the read of the counter.
IncrementRead(h) ==
    /\ hPc[h] = "incRead"
    /\ hCount' = [hCount EXCEPT ![h] = retryCount[hMint[h]]]
    /\ HandlerAt(h, "incWrite")
    /\ UNCHANGED <<processed, predFailed, retryCount, hMint, consecNon,
                   deliveries, storeVars, wallet, coreFrame>>

\* incrementPredictionRetryCount: the write of the value read plus one; the
\* caller then compares it with MAX_PREDICTION_RETRIES.
IncrementWrite(h) ==
    /\ hPc[h] = "incWrite"
    /\ retryCount' = [retryCount EXCEPT ![hMint[h]] = hCount[h] + 1]
    /\ IF hCount[h] + 1 >= MAX_PREDICTION_RETRIES
       THEN HandlerAt(h, "markFailed")
       ELSE HandlerIdle(h)
    /\ UNCHANGED <<processed, predFailed, hMint, hCount, consecNon,
                   deliveries, storeVars, wallet, coreFrame>>

\* markPredictionFailed.
MarkPredictionFailed(h) ==
    /\ hPc[h] = "markFailed"
    /\ predFailed' = predFailed \cup {hMint[h]}
    /\ HandlerIdle(h)
    /\ UNCHANGED <<processed, retryCount, hMint, hCount, consecNon,
                   deliveries, storeVars, wallet, coreFrame>>

\* TradeExecutor.execute: it calls performSwap for the buy at once, with no
\* duplicate check and no lock.
ExecuteSwapCall(h) ==
    /\ hPc[h] = "swap"
    /\ HandlerAt(h, "swapping")
    /\ hSwaps' = [hSwaps EXCEPT ![h] = @ + 1]
    /\ UNCHANGED <<mindmap, hSuccess, lastEvent, redo, redoSnap>>
    /\ UNCHANGED <<processed, predFailed, retryCount, hMint, hCount, consecNon,
                   deliveries, storeVars, wallet, coreRest>>

\* execute with a second performSwap call after a failed one.
ExecuteSwapReturnRetries(h, ok, recorded) ==
    /\ hPc[h] = "swapping"
    /\ IF ok
       THEN /\ IF recorded
               THEN /\ nextId \in TradeIds
                    /\ storeTrade(NewTrade(nextId, hMint[h], WatchEntryPrice,
                                           StoreEntryAmount,
                                           DefaultConditions(0), clock))
                    /\ nextId' = nextId + 1
               ELSE UNCHANGED storeVars
            /\ wallet' = [wallet EXCEPT ![hMint[h]] = @ + StoreEntryAmount]
            /\ HandlerAt(h, "markProcessed")
            /\ UNCHANGED hSuccess
       ELSE /\ IF hSwaps[h] < 2 THEN HandlerAt(h, "swap") ELSE HandlerIdle(h)
            /\ hSuccess' = [hSuccess EXCEPT ![h] = "false"]
            /\ UNCHANGED <<storeVars, wallet>>
    /\ UNCHANGED <<mindmap, hSwaps, lastEvent, redo, redoSnap>>
    /\ UNCHANGED <<processed, predFailed, retryCount, hMint, hCount, consecNon,
                   deliveries, coreRest>>

\* performSwap for the buy has its answer from the backend: on success the
\* tokens are in the wallet and createTrade records the open position,
\* unless it throws (recorded is false): performSwap logs that error and
\* still answers success.  When
\* the answer is a failure, or performSwap throws, execute returns a result
\* with success false, which evaluateAndExecute only logs.
ExecuteSwapReturn(h, ok, recorded) ==
    /\ hPc[h] = "swapping"
    /\ IF ok
       THEN /\ IF recorded
               THEN /\ nextId \in TradeIds
                    /\ storeTrade(NewTrade(nextId, hMint[h], WatchEntryPrice,
                                           StoreEntryAmount,
                                           DefaultConditions(0), clock))
                    /\ nextId' = nextId + 1
               ELSE UNCHANGED storeVars
            /\ wallet' = [wallet EXCEPT ![hMint[h]] = @ + StoreEntryAmount]
            /\ HandlerAt(h, "markProcessed")
            /\ UNCHANGED hSuccess
       ELSE /\ HandlerIdle(h)
            /\ hSuccess' = [hSuccess EXCEPT ![h] = "false"]
            /\ UNCHANGED <<storeVars, wallet>>
    /\ UNCHANGED <<mindmap, hSwaps, lastEvent, redo, redoSnap>>
    /\ UNCHANGED <<processed, predFailed, retryCount, hMint, hCount, consecNon,
                   deliveries, coreRest>>

\* TradeExecutor.markAsProcessed.
MarkProcessed(h) ==
    /\ hPc[h] = "markProcessed"
    /\ processed' = processed \cup {hMint[h]}
    /\ HandlerAt(h, "cleanup")
    /\ UNCHANGED <<predFailed, retryCount, hMint, hCount, consecNon,
                   deliveries, storeVars, wallet, coreFrame>>

\* TradeExecutor.cleanupAfterPurchase: deleteMindmapData; execute then
\* returns its result with success true.
CleanupAfterPurchase(h) ==
    /\ hPc[h] = "cleanup"
    /\ mindmap' = [mindmap EXCEPT ![hMint[h]] = 0]
    /\ hSuccess' = [hSuccess EXCEPT ![h] = "true"]
    /\ HandlerIdle(h)
    /\ UNCHANGED <<hSwaps, lastEvent, redo, redoSnap>>
    /\ UNCHANGED <<processed, predFailed, retryCount, hMint, hCount, consecNon,
                   deliveries, storeVars, wallet, coreRest>>

\* The TTL of a mindmap snapshot (DEFAULT_TTL, 30 minutes) runs out.
ExpireMindmap(m) ==
    /\ mindmap[m] # 0
    /\ mindmap' = [mindmap EXCEPT ![m] = 0]
    /\ redo' = "none"
    /\ redoSnap' = 0
    /\ lastEvent' = NoEvent
    /\ UNCHANGED <<hSwaps, hSuccess>>
    /\ UNCHANGED <<processed, predFailed, retryCount, hPc, hMint, hCount,
                   consecNon, deliveries, storeVars, wallet, coreRest>>

\* The TTL of bot:processed_tokens (DEFAULT_TTL, 30 minutes) runs out.
ExpireProcessed ==
    /\ processed # {}
    /\ processed' = {}
    /\ UNCHANGED <<predFailed, retryCount, hPc, hMint, hCount, consecNon,
                   deliveries, storeVars, wallet, coreFrame>>

\* The TTL of a retry counter (RETRY_TTL, 1 hour) runs out.
ExpireRetryCount(m) ==
    /\ retryCount[m] # 0
    /\ retryCount' = [retryCount EXCEPT ![m] = 0]
    /\ consecNon' = [consecNon EXCEPT ![m] = 0]
    /\ UNCHANGED <<processed, predFailed, hPc, hMint, hCount,
                   deliveries, storeVars, wallet, coreFrame>>

\* The TTL of bot:prediction_failed (RETRY_TTL) runs out.
ExpirePredictionFailed ==
    /\ predFailed # {}
    /\ predFailed' = {}
    /\ consecNon' = [m \in Tokens |-> 0]
    /\ UNCHANGED <<processed, retryCount, hPc, hMint, hCount,
                   deliveries, storeVars, wallet, coreFrame>>

\* The watcher sells an open position and closes it: the success path of
\* executeSell for a trade whose exit condition holds.
WatcherSellClose(id, exitPrice) ==
    /\ id \in openSet
    /\ getTrade(id) # NoTrade
    /\ getTrade(id).status = "open"
    /\ storeTrade(ClosedTrade(getTrade(id), exitPrice, getTrade(id).entryAmount,
                              "sold", clock))
    /\ wallet' = [wallet EXCEPT ![getTrade(id).tokenMint] =
                     IF @ >= getTrade(id).entryAmount
                     THEN @ - getTrade(id).entryAmount ELSE 0]
    /\ UNCHANGED <<nextId, coreVars, coreFrame>>

\* -------------------------------------------------------------------------
\* Specification Spec: the engine's handlers, the cache TTLs and the watcher
\* -------------------------------------------------------------------------
Init ==
    /\ InitStore
    /\ InitClients
    /\ InitTrailVars
    /\ InitCache
    /\ InitPrice
    /\ InitWatch
    /\ InitCore
    /\ InitLock
    /\ InitSocket
    /\ InitUpdate
    /\ InitCycle
    /\ InitTickers
    /\ InitLedger
    /\ InitExecute
    /\ InitPredictIdle
    /\ InitFilterIdle

Next ==
    \/ \E h \in Handlers, m \in EventMints, d \in MindmapPayloads :
          HandleMindmapUpdate(h, m, d)
    \/ \E h \in Handlers : CheckProcessed(h)
    \/ \E h \in Handlers : ProcessToken(h)
    \/ \E h \in Handlers, passed \in BOOLEAN : CheckPredictionFailed(h, passed)
    \/ \E h \in Handlers, approved \in BOOLEAN : PredictReturn(h, approved)
    \/ \E h \in Handlers : IncrementRead(h)
    \/ \E h \in Handlers : IncrementWrite(h)
    \/ \E h \in Handlers : MarkPredictionFailed(h)
    \/ \E h \in Handlers : ExecuteSwapCall(h)
    \/ \E h \in Handlers, ok \in BOOLEAN, recorded \in BOOLEAN :
          ExecuteSwapReturn(h, ok, recorded)
    \/ \E h \in Handlers : MarkProcessed(h)
    \/ \E h \in Handlers : CleanupAfterPurchase(h)
    \/ \E m \in Tokens : ExpireMindmap(m)
    \/ ExpireProcessed
    \/ \E m \in Tokens : ExpireRetryCount(m)
    \/ ExpirePredictionFailed
    \/ \E id \in TradeIds, p \in StorePrices : WatcherSellClose(id, p)

Spec == Init /\ [][Next]_vars

\* -------------------------------------------------------------------------
\* Specification SpecTrail: one trade fed a sequence of observed prices
\* -------------------------------------------------------------------------
TrailEntryPrices == {0, U(100)}
TrailTakeProfits == {0, 50}
TrailTrailings   == {0, 10, 150}
TrailStopLosses  == {0, 20}
TrailPrices      == {0, U(80), U(140), U(150), U(200), U(230)}

InitTrail ==
    /\ InitStore
    /\ InitClients
    /\ InitCache
    /\ InitPrice
    /\ InitWatch
    /\ InitCore
    /\ InitLock
    /\ InitSocket
    /\ InitUpdate
    /\ InitCycle
    /\ InitTickers
    /\ InitLedger
    /\ InitExecute
    /\ InitPredictIdle
    /\ InitFilterIdle
    /\ \E e \in TrailEntryPrices, tp \in TrailTakeProfits,
          tr \in TrailTrailings, sl \in TrailStopLosses :
          tTrade = NewTrade(1, "T1", e, 100, SellConditions(tp, sl, tr, 0), 0)
    /\ tPrev = tTrade
    /\ tPrices = <<>>
    /\ tReason = "none"

\* One observed price: evaluateTrade from its step 3 on, on a trade whose hold
\* time has not run out.
ObservePrice(p) ==
    /\ Len(tPrices) < MaxFeed
    /\ UNCHANGED trailFrame
    /\ tPrev' = tTrade
    /\ tTrade' = PriceStep(tTrade, p)
    /\ tPrices' = Append(tPrices, p)
    /\ tReason' = checkSellConditions(PriceStep(tTrade, p), p, FALSE)

NextTrail == \E p \in TrailPrices : ObservePrice(p)

SpecTrail == InitTrail /\ [][NextTrail]_vars

\* -------------------------------------------------------------------------
\* MindmapFilterEngine.evaluate
\* -------------------------------------------------------------------------
\* A quotient num/den with den > 0, kept exact.
Frac(num, den) == [num |-> num, den |-> den]

FracLess(q, k) == q.num < k * q.den

FracAtLeast(q, k) == q.num >= k * q.den

calculateTotalVolume(d) ==
    LET sum[i \in 0..Len(d.conns)] ==
            IF i = 0 THEN 0 ELSE sum[i - 1] + d.conns[i].totalVolume
    IN sum[Len(d.conns)]

countConnectedKOLs(d) == Len(d.conns)

calculateAvgInfluenceScore(d) ==
    LET sum[i \in 0..Len(d.conns)] ==
            IF i = 0 THEN 0 ELSE sum[i - 1] + d.conns[i].influenceScore
    IN IF Len(d.conns) = 0 THEN Frac(0, 1)
       ELSE Frac(sum[Len(d.conns)], Len(d.conns))

calculateViralVelocity(d) ==
    Cardinality({i \in 1..Len(d.conns) : d.conns[i].active})

\* Sum of totalVolume * (influenceScore / 100).
calculateWeightedVolume(d) ==
    LET sum[i \in 0..Len(d.conns)] ==
            IF i = 0 THEN 0
            ELSE sum[i - 1] + d.conns[i].totalVolume * d.conns[i].influenceScore
    IN Frac(sum[Len(d.conns)], 100)

calculateConsensus(d) ==
    LET buying == Cardinality({i \in 1..Len(d.conns) : d.conns[i].buys})
    IN IF Len(d.conns) = 0 THEN Frac(0, 1)
       ELSE Frac(buying * 100, Len(d.conns))

\* The signals pushed by evaluate.
FilterSignals(criteria, d) ==
    {sig \in {"VIRAL_SPIKE", "SMART_MONEY", "HIGH_CONSENSUS"} :
        \/ /\ sig = "VIRAL_SPIKE"
           /\ ~Falsy(criteria.minViralVelocity)
           /\ calculateViralVelocity(d) >= criteria.minViralVelocity
        \/ /\ sig = "SMART_MONEY"
           /\ criteria.requireSmartMoney
           \* weightedVolume > totalVolume * 0.6
           /\ calculateWeightedVolume(d).num * 10
                > calculateTotalVolume(d) * 6 * calculateWeightedVolume(d).den
        \/ /\ sig = "HIGH_CONSENSUS"
           /\ ~Falsy(criteria.minConsensusScore)
           /\ FracAtLeast(calculateConsensus(d), criteria.minConsensusScore)
           /\ countConnectedKOLs(d) >= 3}

FilterMetrics(d) ==
    [totalVolume |-> calculateTotalVolume(d),
     connectedKOLs |-> countConnectedKOLs(d),
     avgInfluenceScore |-> calculateAvgInfluenceScore(d),
     totalTrades |-> d.totalTrades,
     viralVelocity |-> calculateViralVelocity(d),
     weightedVolume |-> calculateWeightedVolume(d),
     consensusScore |-> calculateConsensus(d)]

\* The metrics of the native SOL rejection.
NativeMetrics ==
    [totalVolume |-> 0, connectedKOLs |-> 0, avgInfluenceScore |-> Frac(0, 1),
     totalTrades |-> 0, viralVelocity |-> Undef, weightedVolume |-> Undef,
     consensusScore |-> Undef]

FilterResult(passed, reason, metrics, signals) ==
    [passed |-> passed, reason |-> reason, metrics |-> metrics,
     signals |-> signals]

\* What the price service and the chain answer to the advanced filters:
\* "ok" (a price, a supply and a market cap that is high enough), "noPrice"
\* (no price in the cache, none after discoverToken), "noSupply", "lowCap",
\* "throws" (one of the calls rejects).
OnChain == {"ok", "noPrice", "noSupply", "lowCap", "throws"}

\* The advanced on-chain filters of evaluate: the rejection reason, or "none".
OnChainCheck(criteria, onchain) ==
    IF ~(criteria.minMarketCapUsd > 0 \/ criteria.minLiquidityUsd > 0) THEN "none"
    ELSE IF onchain = "throws" THEN "onchain_error"
    ELSE IF onchain = "noPrice" THEN "no_price"
    ELSE IF criteria.minMarketCapUsd > 0 /\ onchain = "noSupply" THEN "no_supply"
    ELSE IF criteria.minMarketCapUsd > 0 /\ onchain = "lowCap" THEN "market_cap"
    ELSE "none"

\* evaluate with the thresholds enforced whether or not a signal was emitted.
evaluateNoOverride(criteria, d, onchain) ==
    LET m == FilterMetrics(d)
        signals == FilterSignals(criteria, d)
        chain == OnChainCheck(criteria, onchain)
    IN
    IF d.native THEN FilterResult(FALSE, "native_sol", NativeMetrics, {})
    ELSE IF m.totalVolume < criteria.minTradeVolume
    THEN FilterResult(FALSE, "volume", m, signals)
    ELSE IF m.connectedKOLs < criteria.minConnectedKOLs
    THEN FilterResult(FALSE, "kols", m, signals)
    ELSE IF m.totalTrades < criteria.minTotalTrades
    THEN FilterResult(FALSE, "trades", m, signals)
    ELSE IF FracLess(m.avgInfluenceScore, criteria.minInfluenceScore)
    THEN FilterResult(FALSE, "influence", m, signals)
    ELSE IF chain # "none" THEN FilterResult(FALSE, chain, m, {})
    ELSE FilterResult(TRUE, "none", m, signals)

\* evaluate with the influence floor tested before the three thresholds.
evaluateInfluenceFirst(criteria, d, onchain) ==
    LET m == FilterMetrics(d)
        signals == FilterSignals(criteria, d)
        chain == OnChainCheck(criteria, onchain)
    IN
    IF d.native THEN FilterResult(FALSE, "native_sol", NativeMetrics, {})
    ELSE IF FracLess(m.avgInfluenceScore, criteria.minInfluenceScore)
    THEN FilterResult(FALSE, "influence", m, signals)
    ELSE IF signals = {} /\ m.totalVolume < criteria.minTradeVolume
    THEN FilterResult(FALSE, "volume", m, signals)
    ELSE IF signals = {} /\ m.connectedKOLs < criteria.minConnectedKOLs
    THEN FilterResult(FALSE, "kols", m, signals)
    ELSE IF signals = {} /\ m.totalTrades < criteria.minTotalTrades
    THEN FilterResult(FALSE, "trades", m, signals)
    ELSE IF chain # "none" THEN FilterResult(FALSE, chain, m, {})
    ELSE FilterResult(TRUE, "none", m, signals)

\* MindmapFilterEngine.evaluate.  The results of the native SOL rejection and
\* of the on-chain rejections carry no signals field.
evaluate(criteria, d, onchain) ==
    LET m == FilterMetrics(d)
        signals == FilterSignals(criteria, d)
        chain == OnChainCheck(criteria, onchain)
    IN
    IF d.native THEN FilterResult(FALSE, "native_sol", NativeMetrics, {})
    ELSE IF signals = {} /\ m.totalVolume < criteria.minTradeVolume
    THEN FilterResult(FALSE, "volume", m, signals)
    ELSE IF signals = {} /\ m.connectedKOLs < criteria.minConnectedKOLs
    THEN FilterResult(FALSE, "kols", m, signals)
    ELSE IF signals = {} /\ m.totalTrades < criteria.minTotalTrades
    THEN FilterResult(FALSE, "trades", m, signals)
    ELSE IF FracLess(m.avgInfluenceScore, criteria.minInfluenceScore)
    THEN FilterResult(FALSE, "influence", m, signals)
    ELSE IF chain # "none" THEN FilterResult(FALSE, chain, m, {})
    ELSE FilterResult(TRUE, "none", m, signals)

\* -------------------------------------------------------------------------
\* Specification SpecFilter: evaluate on bounded criteria and snapshots
\* -------------------------------------------------------------------------
MaxConnections == 3

\* The connections a snapshot is made of: an active small buyer, a whale, a
\* small seller and an active seller of some influence.
ConnectionKinds ==
    <<Connection(100, 10, TRUE, TRUE), Connection(10000, 100, FALSE, TRUE),
      Connection(2000, 10, FALSE, FALSE), Connection(500, 70, TRUE, FALSE)>>

\* kolConnections is a map: the order of its entries carries nothing, so the
\* snapshots list their connections in one order only.
FilterConnections ==
    {[i \in 1..Len(k) |-> ConnectionKinds[k[i]]] :
        k \in {q \in UNION {[1..n -> 1..Len(ConnectionKinds)] : n \in 0..MaxConnections} :
                  \A i \in 1..(Len(q) - 1) : q[i] <= q[i + 1]}}

FilterTotalTrades == {0, 5}

FilterCriteriaSet ==
    {Criteria(v, k, i, t, vv, sm, cs, oc[1], oc[2]) :
        v \in {0, 1000}, k \in {0, 2}, i \in {0, 50}, t \in {0, 5},
        vv \in {Undef, 0, 2}, sm \in BOOLEAN, cs \in {Undef, 0, 60},
        oc \in {<<0, 0>>, <<1000, 0>>, <<0, 1000>>}}

InitFilter ==
    /\ InitStore
    /\ InitClients
    /\ InitTrailVars
    /\ InitCache
    /\ InitPrice
    /\ InitWatch
    /\ InitCore
    /\ InitLock
    /\ InitSocket
    /\ InitUpdate
    /\ InitCycle
    /\ InitTickers
    /\ InitLedger
    /\ InitExecute
    /\ InitPredictIdle
    /\ fCriteria \in FilterCriteriaSet
    /\ \E n \in BOOLEAN, c \in FilterConnections, t \in FilterTotalTrades :
          /\ n => t = 0   \* totalTrades is not read for the native SOL token
          /\ fData = Snapshot(n, c, t)
    /\ fResult = NoResult

filterFrame == <<trailVars, storeVars, clientVars, cacheVars, priceVars,
                 watchVars, coreVars,
    predictVars,
    executeVars,
    ledgerVars,
    tickerVars,
    cycleVars,
    updateVars,
    socketVars,
    lockVars>>

\* One call of evaluate on the snapshot.
Evaluate(onchain) ==
    /\ fResult' = evaluate(fCriteria, fData, onchain)
    /\ UNCHANGED <<fCriteria, fData, filterFrame>>

NextFilter == \E o \in OnChain : Evaluate(o)

SpecFilter == InitFilter /\ [][NextFilter]_vars


\* -------------------------------------------------------------------------
\* Specification SpecPredict: PredictionService.predict over HttpClient.post
\* -------------------------------------------------------------------------
MaxPredictCalls == 2

\* The options HttpClient.post hands to withRetry, merged over the defaults
\* (backoffMultiplier is not overridden).
PostRetryOptions ==
    [maxRetries |-> 3, initialDelayMs |-> 1000, maxDelayMs |-> 10000,
     backoffMultiplier |-> 2]

\* Error messages an attempt can fail with, and the ones a pattern of
\* retryableErrors occurs in.
ErrorMessages ==
    {"ECONNRESET", "Request failed with status code 503",
     "Request failed with status code 400"}

isRetryableError(message) ==
    message \in {"ECONNRESET", "Request failed with status code 503"}

RECURSIVE Pow(_, _)
Pow(b, e) == IF e = 0 THEN 1 ELSE b * Pow(b, e - 1)

\* Math.random() in [0, 1), in hundredths.
Randoms == {0, 50, 99}

\* min(exponentialDelay + jitter, maxDelay); the delay is kept in whole ms.
calculateBackoffDelay(attempt, initialDelay, maxDelay, multiplier, random) ==
    LET exponentialDelay == initialDelay * Pow(multiplier, attempt)
        jitter == (random * 30 * exponentialDelay) \div 10000
    IN  IF exponentialDelay + jitter < maxDelay
        THEN exponentialDelay + jitter ELSE maxDelay

\* The catch block of withRetry throws instead of waiting.
withRetryThrowsUnconditionalRetry(message, attempt, config) ==
    attempt >= config.maxRetries

withRetryThrows(message, attempt, config) ==
    ~isRetryableError(message) \/ attempt >= config.maxRetries

\* What the prediction endpoint can answer with.
Prediction(classLabel, probability) ==
    [classLabel |-> classLabel, probability |-> probability]

Probabilities == {Undef, 0, 649, 650, 689, 690, 1000}

Predictions ==
    {Prediction(l, p) : l \in {"good", "bad"}, p \in Probabilities}

Responses == {<<>>} \cup {<<p>> : p \in Predictions}

Returned(data) == [kind |-> "data", data |-> data]

Thrown(message) == [kind |-> "error", message |-> message]

\* predictTrade: the first element of the response, or an error.
predictTrade(outcome) ==
    IF outcome.kind = "data" /\ Len(outcome.data) > 0
    THEN [kind |-> "prediction", prediction |-> outcome.data[1]]
    ELSE [kind |-> "error"]

predictStrictThreshold(outcome) ==
    LET r == predictTrade(outcome)
    IN  IF r.kind = "prediction"
        THEN LET result == r.prediction
                 confidence ==
                     (IF Falsy(result.probability) THEN 0
                      ELSE result.probability) * 100
             IN  [classLabel |-> result.classLabel,
                  probability |-> result.probability,
                  confidence |-> confidence,
                  approved |-> result.classLabel = "good"
                               /\ confidence > Percent(65),
                  failed |-> FALSE]
        ELSE [classLabel |-> "unknown", probability |-> 0, confidence |-> 0,
              approved |-> FALSE, failed |-> TRUE]

predict(outcome) ==
    LET r == predictTrade(outcome)
    IN  IF r.kind = "prediction"
        THEN LET result == r.prediction
                 confidence ==
                     (IF Falsy(result.probability) THEN 0
                      ELSE result.probability) * 100
             IN  [classLabel |-> result.classLabel,
                  probability |-> result.probability,
                  confidence |-> confidence,
                  approved |-> result.classLabel = "good"
                               /\ confidence >= Percent(65),
                  failed |-> FALSE]
        ELSE [classLabel |-> "unknown", probability |-> 0, confidence |-> 0,
              approved |-> FALSE, failed |-> TRUE]

InitPredict ==
    /\ InitTrailVars
    /\ InitStore
    /\ InitClients
    /\ InitCache
    /\ InitPrice
    /\ InitWatch
    /\ InitCore
    /\ InitLock
    /\ InitSocket
    /\ InitUpdate
    /\ InitCycle
    /\ InitTickers
    /\ InitLedger
    /\ InitExecute
    /\ InitFilterIdle
    /\ InitPredictIdle

predictFrame == <<trailVars, storeVars, clientVars, cacheVars, priceVars,
                  watchVars, coreVars, filterVars,
    executeVars,
    ledgerVars,
    tickerVars,
    cycleVars,
    updateVars,
    socketVars,
    lockVars>>

\* predict is called: withRetry starts its loop with attempt 0.
PredictCall ==
    /\ qPc \in {"idle", "done"}
    /\ qCalls < MaxPredictCalls
    /\ qPc' = "post"
    /\ qAttempt' = 0
    /\ qOps' = 1
    /\ qDelay' = 0
    /\ qAnswer' = NoAnswer
    /\ qResult' = NoPrediction
    /\ qCalls' = qCalls + 1
    /\ UNCHANGED predictFrame

\* The operation of the current attempt resolves: withRetry returns its
\* data, predictTrade and predict run to their end.
PostReturns(data) ==
    /\ qPc = "post"
    /\ qAnswer' = Returned(data)
    /\ qResult' = predict(Returned(data))
    /\ qPc' = "done"
    /\ UNCHANGED <<qAttempt, qOps, qDelay, qCalls>>
    /\ UNCHANGED predictFrame

\* The operation of the current attempt rejects: withRetry either throws,
\* which predictTrade rethrows and predict catches, or waits for its delay.
PostThrows(message, random) ==
    /\ qPc = "post"
    /\ qAnswer' = Thrown(message)
    /\ IF withRetryThrows(message, qAttempt, PostRetryOptions)
       THEN /\ qResult' = predict(Thrown(message))
            /\ qPc' = "done"
            /\ UNCHANGED qDelay
       ELSE /\ qDelay' = calculateBackoffDelay(qAttempt,
                             PostRetryOptions.initialDelayMs,
                             PostRetryOptions.maxDelayMs,
                             PostRetryOptions.backoffMultiplier, random)
            /\ qPc' = "delay"
            /\ UNCHANGED qResult
    /\ UNCHANGED <<qAttempt, qOps, qCalls>>
    /\ UNCHANGED predictFrame

\* The delay has passed: the loop increments attempt and, while
\* attempt <= maxRetries, starts the operation again.
DelayElapsed ==
    /\ qPc = "delay"
    /\ qAttempt' = qAttempt + 1
    /\ IF qAttempt + 1 <= PostRetryOptions.maxRetries
       THEN /\ qPc' = "post"
            /\ qOps' = qOps + 1
            /\ UNCHANGED qResult
       ELSE /\ qPc' = "done"
            /\ qResult' = predict(qAnswer)
            /\ UNCHANGED qOps
    /\ UNCHANGED <<qDelay, qAnswer, qCalls>>
    /\ UNCHANGED predictFrame

NextPredict ==
    \/ PredictCall
    \/ \E data \in Responses : PostReturns(data)
    \/ \E message \in ErrorMessages, random \in Randoms :
          PostThrows(message, random)
    \/ DelayElapsed

SpecPredict == InitPredict /\ [][NextPredict]_vars


\* -------------------------------------------------------------------------
\* Specification SpecLedger: concurrent callers of PaperWalletService
\* -------------------------------------------------------------------------
MaxLedgerCalls == 3

LedgerAmounts == {1, 2}

ledgerFrame == <<trailVars, storeVars, clientVars, cacheVars, priceVars,
                 watchVars, coreVars, filterVars, predictVars, executeVars,
    tickerVars,
    cycleVars,
    updateVars,
    socketVars,
    lockVars>>

\* deposit or withdraw is called: ensureConnected, then hGet is sent.
LedgerCall(c, kind, amount) ==
    /\ lPc[c] = "idle"
    /\ lCalls < MaxLedgerCalls
    /\ lCalls' = lCalls + 1
    /\ lOp' = [lOp EXCEPT ![c] = [kind |-> kind, amount |-> amount]]
    /\ lPc' = [lPc EXCEPT ![c] = "hGet"]
    /\ UNCHANGED <<lBalance, lRead, lDeposited, lWithdrawn>>
    /\ UNCHANGED ledgerFrame

\* hGet answers with the field; withdraw throws when the balance read is
\* less than the amount.
LedgerGet(c) ==
    /\ lPc[c] = "hGet"
    /\ lRead' = [lRead EXCEPT ![c] = parseBalance(lBalance)]
    /\ IF lOp[c].kind = "withdraw" /\ parseBalance(lBalance) < lOp[c].amount
       THEN /\ lPc' = [lPc EXCEPT ![c] = "idle"]
            /\ lOp' = [lOp EXCEPT ![c].kind = "insufficient"]
       ELSE /\ lPc' = [lPc EXCEPT ![c] = "hSet"]
            /\ UNCHANGED lOp
    /\ UNCHANGED <<lBalance, lDeposited, lWithdrawn, lCalls>>
    /\ UNCHANGED ledgerFrame

\* hSet writes the balance read plus or minus the amount; the call returns.
LedgerSet(c) ==
    /\ lPc[c] = "hSet"
    /\ IF lOp[c].kind = "deposit"
       THEN /\ lBalance' = toString(lRead[c] + lOp[c].amount)
            /\ lDeposited' = lDeposited + lOp[c].amount
            /\ UNCHANGED lWithdrawn
       ELSE /\ lBalance' = toString(lRead[c] - lOp[c].amount)
            /\ lWithdrawn' = lWithdrawn + lOp[c].amount
            /\ UNCHANGED lDeposited
    /\ lPc' = [lPc EXCEPT ![c] = "idle"]
    /\ UNCHANGED <<lOp, lRead, lCalls>>
    /\ UNCHANGED ledgerFrame

InitLedgerSpec ==
    /\ InitStore
    /\ InitClients
    /\ InitTrailVars
    /\ InitCache
    /\ InitPrice
    /\ InitWatch
    /\ InitCore
    /\ InitLock
    /\ InitSocket
    /\ InitUpdate
    /\ InitCycle
    /\ InitTickers
    /\ InitExecute
    /\ InitPredictIdle
    /\ InitFilterIdle
    /\ InitLedger

NextLedger ==
    \/ \E c \in LedgerCallers, kind \in {"deposit", "withdraw"},
          amount \in LedgerAmounts : LedgerCall(c, kind, amount)
    \/ \E c \in LedgerCallers : LedgerGet(c)
    \/ \E c \in LedgerCallers : LedgerSet(c)

SpecLedger == InitLedgerSpec /\ [][NextLedger]_vars


\* -------------------------------------------------------------------------
\* Specification SpecTickers: start and stop of the periodic work
\* -------------------------------------------------------------------------
MaxStarts == 2

MaxTicksAfterStop == 2

MaxTicks == 2

tickerFrame == <<trailVars, storeVars, clientVars, cacheVars, priceVars,
                 watchVars, coreVars, filterVars, predictVars, executeVars,
                 ledgerVars,
    cycleVars,
    updateVars,
    socketVars,
    lockVars>>

GroupOf(kind) == IF kind \in WatcherTickers THEN "watcher" ELSE "worker"

\* A tick of this ticker starts: counted when a stop signal came before it.
TickStarts(kind) ==
    IF kStopped[GroupOf(kind)]
    THEN /\ kAfter[kind] < MaxTicksAfterStop
         /\ kAfter' = [kAfter EXCEPT ![kind] = @ + 1]
         /\ UNCHANGED kTicks
    ELSE /\ kTicks[kind] < MaxTicks
         /\ kTicks' = [kTicks EXCEPT ![kind] = @ + 1]
         /\ UNCHANGED kAfter

\* TradeWatcherService.start: returns when checkInterval is set; otherwise
\* sets the tick interval, kept in checkInterval, and the heartbeat
\* interval, whose handle is not kept.
WatcherStart ==
    /\ kStarts < MaxStarts
    /\ kStarts' = kStarts + 1
    /\ IF kCheck # 0
       THEN UNCHANGED <<kCheck, kTimers, kNextTimer, kStopped, kAfter>>
       ELSE /\ kCheck' = kNextTimer
            /\ kTimers' = kTimers \cup {Timer(kNextTimer, "tick"),
                                        Timer(kNextTimer + 1, "heartbeat")}
            /\ kNextTimer' = kNextTimer + 2
            /\ kStopped' = [kStopped EXCEPT !["watcher"] = FALSE]
            /\ kAfter' = [k \in Tickers |->
                             IF k \in WatcherTickers THEN 0 ELSE kAfter[k]]
    /\ UNCHANGED <<kMon, kWorker, kLoops, kTicks>>
    /\ UNCHANGED tickerFrame

\* TradeWatcherService.stop: clearInterval(checkInterval).
WatcherStop ==
    /\ kCheck # 0
    /\ kTimers' = {t \in kTimers : t.id # kCheck}
    /\ kCheck' = 0
    /\ kStopped' = [kStopped EXCEPT !["watcher"] = TRUE]
    /\ kAfter' = [k \in Tickers |->
                     IF k \in WatcherTickers THEN 0 ELSE kAfter[k]]
    /\ UNCHANGED <<kNextTimer, kMon, kWorker, kLoops, kTicks, kStarts>>
    /\ UNCHANGED tickerFrame

\* An interval timer that is set fires: a watcher tick or a heartbeat.
IntervalFires(t) ==
    /\ t \in kTimers
    /\ TickStarts(t.kind)
    /\ UNCHANGED <<kCheck, kTimers, kNextTimer, kMon, kWorker, kLoops,
                   kStopped, kStarts>>
    /\ UNCHANGED tickerFrame

\* The worker script: startMonitoring sets isMonitoring and runs the first
\* iteration of both loops, each of which ends by setting its timeout.
StartMonitoring ==
    /\ kWorker = "new"
    /\ kWorker' = "running"
    /\ kMon' = TRUE
    /\ kLoops' = WorkerTickers
    /\ UNCHANGED <<kCheck, kTimers, kNextTimer, kStopped, kAfter, kTicks,
                   kStarts>>
    /\ UNCHANGED tickerFrame

\* The timeout of a loop fires in the running worker: runMonitorLoop or
\* runDiscoveryLoop runs an iteration when isMonitoring is set, and sets its
\* timeout again.
LoopFires(l) ==
    /\ kWorker = "running"
    /\ l \in kLoops
    /\ IF kMon THEN TickStarts(l) /\ UNCHANGED kLoops
       ELSE kLoops' = kLoops \ {l} /\ UNCHANGED <<kAfter, kTicks>>
    /\ UNCHANGED <<kCheck, kTimers, kNextTimer, kMon, kWorker, kStopped,
                   kStarts>>
    /\ UNCHANGED tickerFrame

\* The worker receives STOP: process.exit(0) ends the thread and with it
\* every timeout it has set.
WorkerStop ==
    /\ kWorker = "running"
    /\ kWorker' = "exited"
    /\ kLoops' = {}
    /\ kStopped' = [kStopped EXCEPT !["worker"] = TRUE]
    /\ kAfter' = [k \in Tickers |->
                     IF k \in WorkerTickers THEN 0 ELSE kAfter[k]]
    /\ UNCHANGED <<kCheck, kTimers, kNextTimer, kMon, kTicks, kStarts>>
    /\ UNCHANGED tickerFrame

InitTickerSpec ==
    /\ InitStore
    /\ InitClients
    /\ InitTrailVars
    /\ InitCache
    /\ InitPrice
    /\ InitWatch
    /\ InitCore
    /\ InitLock
    /\ InitSocket
    /\ InitUpdate
    /\ InitCycle
    /\ InitLedger
    /\ InitExecute
    /\ InitPredictIdle
    /\ InitFilterIdle
    /\ InitTickers

NextTickers ==
    \/ WatcherStart
    \/ WatcherStop
    \/ \E id \in 1..(2 * MaxStarts), kind \in WatcherTickers :
          IntervalFires(Timer(id, kind))
    \/ StartMonitoring
    \/ \E l \in WorkerTickers : LoopFires(l)
    \/ WorkerStop

SpecTickers == InitTickerSpec /\ [][NextTickers]_vars


\* -------------------------------------------------------------------------
\* Specification SpecPriceFair: SpecPrice with the loops' scheduling
\* -------------------------------------------------------------------------
\* runDiscoveryLoop sets its next timeout in a finally block, so an
\* iteration that can call discoverToken for a mint is eventually run, and
\* a call of discoverToken that is waiting for the SDK eventually returns.
\* Nothing obliges the fast paths to resolve a mint, and a key that is
\* written again does not expire.
LoopFairness ==
    /\ \A m \in Tokens : WF_vars(DiscoveryLoopCall(m))
    /\ WF_vars(\E f \in BOOLEAN, p \in MonitorPrices, src \in Sources :
                  DiscoverReturn("loop", f, p, src))

SpecPriceFair == SpecPrice /\ LoopFairness


\* -------------------------------------------------------------------------
\* Specification SpecCycle: ticks, evaluations and sells of one watcher
\* -------------------------------------------------------------------------
MaxCycleTicks == 3

cycleFrame == <<trailVars, storeVars, clientVars, cacheVars, priceVars,
                watchVars, coreVars, filterVars, predictVars, executeVars,
                ledgerVars, tickerVars,
    updateVars,
    socketVars,
    lockVars>>

SwapOutcomes == {"success", "noBalance", "failure", "throws"}

\* A buy stores a new open position.
CycleOpen(id) ==
    /\ yStatus[id] = "none"
    /\ yStatus' = [yStatus EXCEPT ![id] = "open"]
    /\ UNCHANGED <<yProcessing, yPc, yEval, yInFlight, ySwaps, yLastTick,
                   yTicks>>
    /\ UNCHANGED cycleFrame

\* processOpenTrades is called: it returns at once when isProcessing is
\* set, and otherwise sets it and awaits getOpenTrades.
CycleTick(r) ==
    /\ yPc[r] = "idle"
    /\ yTicks < MaxCycleTicks
    /\ yTicks' = yTicks + 1
    /\ IF yProcessing
       THEN /\ yLastTick' = "skipped"
            /\ UNCHANGED <<yProcessing, yPc>>
       ELSE /\ yLastTick' = "ran"
            /\ yProcessing' = TRUE
            /\ yPc' = [yPc EXCEPT ![r] = "getOpenTrades"]
    /\ UNCHANGED <<yEval, yInFlight, ySwaps, yStatus>>
    /\ UNCHANGED cycleFrame

\* What the callback of openTrades.map does for a trade before its first
\* await: nothing for an id in processingTrades, else evaluateTrade starts.
EvalStart(id) ==
    IF yStatus[id] # "open" THEN "none"
    ELSE IF id \in yInFlight THEN "done" ELSE "evaluate"

\* processOpenTrades leaves isProcessing set when there is no open trade.
GetOpenTradesReturnsNoReset(r) ==
    /\ yPc[r] = "getOpenTrades"
    /\ IF \A id \in CycleIds : yStatus[id] # "open"
       THEN /\ yPc' = [yPc EXCEPT ![r] = "idle"]
            /\ UNCHANGED <<yProcessing, yEval>>
       ELSE /\ yPc' = [yPc EXCEPT ![r] = "evaluating"]
            /\ yEval' = [yEval EXCEPT ![r] = [id \in CycleIds |-> EvalStart(id)]]
            /\ UNCHANGED yProcessing
    /\ UNCHANGED <<yInFlight, ySwaps, yStatus, yLastTick, yTicks>>
    /\ UNCHANGED cycleFrame

\* getOpenTrades has answered: with no open trade the run returns through
\* its finally block; otherwise, after addTokenInterest, every trade's
\* callback is started.
GetOpenTradesReturns(r) ==
    /\ yPc[r] = "getOpenTrades"
    /\ IF \A id \in CycleIds : yStatus[id] # "open"
       THEN /\ yPc' = [yPc EXCEPT ![r] = "idle"]
            /\ yProcessing' = FALSE
            /\ UNCHANGED yEval
       ELSE /\ yPc' = [yPc EXCEPT ![r] = "evaluating"]
            /\ yEval' = [yEval EXCEPT ![r] = [id \in CycleIds |-> EvalStart(id)]]
            /\ UNCHANGED yProcessing
    /\ UNCHANGED <<yInFlight, ySwaps, yStatus, yLastTick, yTicks>>
    /\ UNCHANGED cycleFrame

\* evaluateTrade of a trade comes to its end or to executeSell, which
\* returns for an id in processingTrades and else adds the id and calls
\* performSwap.
EvaluateDecides(r, id, sell) ==
    /\ yPc[r] = "evaluating"
    /\ yEval[r][id] = "evaluate"
    /\ IF sell /\ id \notin yInFlight
       THEN /\ yInFlight' = yInFlight \cup {id}
            /\ ySwaps' = [ySwaps EXCEPT ![id] = @ + 1]
            /\ yEval' = [yEval EXCEPT ![r][id] = "swapping"]
       ELSE /\ yEval' = [yEval EXCEPT ![r][id] = "done"]
            /\ UNCHANGED <<yInFlight, ySwaps>>
    /\ UNCHANGED <<yProcessing, yPc, yStatus, yLastTick, yTicks>>
    /\ UNCHANGED cycleFrame

\* executeSell without its finally block: a throw of performSwap leaves the
\* id in processingTrades.
SwapReturnsNoFinally(r, id, outcome) ==
    /\ yPc[r] = "evaluating"
    /\ yEval[r][id] = "swapping"
    /\ ySwaps' = [ySwaps EXCEPT ![id] = @ - 1]
    /\ IF outcome \in {"success", "noBalance"}
       THEN /\ yEval' = [yEval EXCEPT ![r][id] = "closing"]
            /\ UNCHANGED yInFlight
       ELSE /\ yEval' = [yEval EXCEPT ![r][id] = "done"]
            /\ yInFlight' = IF outcome = "throws" THEN yInFlight
                            ELSE yInFlight \ {id}
    /\ UNCHANGED <<yProcessing, yPc, yStatus, yLastTick, yTicks>>
    /\ UNCHANGED cycleFrame

\* performSwap has answered: after a success, or a failure whose message
\* names a missing balance, closeTrade is called; after any other failure
\* or a throw the finally block deletes the id.
SwapReturns(r, id, outcome) ==
    /\ yPc[r] = "evaluating"
    /\ yEval[r][id] = "swapping"
    /\ ySwaps' = [ySwaps EXCEPT ![id] = @ - 1]
    /\ IF outcome \in {"success", "noBalance"}
       THEN /\ yEval' = [yEval EXCEPT ![r][id] = "closing"]
            /\ UNCHANGED yInFlight
       ELSE /\ yEval' = [yEval EXCEPT ![r][id] = "done"]
            /\ yInFlight' = yInFlight \ {id}
    /\ UNCHANGED <<yProcessing, yPc, yStatus, yLastTick, yTicks>>
    /\ UNCHANGED cycleFrame

\* closeTrade has returned or thrown; the finally block deletes the id.
CloseReturns(r, id, closed) ==
    /\ yPc[r] = "evaluating"
    /\ yEval[r][id] = "closing"
    /\ yStatus' = IF closed THEN [yStatus EXCEPT ![id] = "closed"] ELSE yStatus
    /\ yInFlight' = yInFlight \ {id}
    /\ yEval' = [yEval EXCEPT ![r][id] = "done"]
    /\ UNCHANGED <<yProcessing, yPc, ySwaps, yLastTick, yTicks>>
    /\ UNCHANGED cycleFrame

\* Promise.all has settled: the finally block resets isProcessing.
RunEnds(r) ==
    /\ yPc[r] = "evaluating"
    /\ \A id \in CycleIds : yEval[r][id] \in {"none", "done"}
    /\ yProcessing' = FALSE
    /\ yPc' = [yPc EXCEPT ![r] = "idle"]
    /\ yEval' = [yEval EXCEPT ![r] = [id \in CycleIds |-> "none"]]
    /\ UNCHANGED <<yInFlight, ySwaps, yStatus, yLastTick, yTicks>>
    /\ UNCHANGED cycleFrame

InitCycleSpec ==
    /\ InitStore
    /\ InitClients
    /\ InitTrailVars
    /\ InitCache
    /\ InitPrice
    /\ InitWatch
    /\ InitCore
    /\ InitLock
    /\ InitSocket
    /\ InitUpdate
    /\ InitTickers
    /\ InitLedger
    /\ InitExecute
    /\ InitPredictIdle
    /\ InitFilterIdle
    /\ InitCycle

NextCycle ==
    \/ \E id \in CycleIds : CycleOpen(id)
    \/ \E r \in CycleCalls : CycleTick(r)
    \/ \E r \in CycleCalls : GetOpenTradesReturns(r)
    \/ \E r \in CycleCalls, id \in CycleIds, sell \in BOOLEAN :
          EvaluateDecides(r, id, sell)
    \/ \E r \in CycleCalls, id \in CycleIds, outcome \in SwapOutcomes :
          SwapReturns(r, id, outcome)
    \/ \E r \in CycleCalls, id \in CycleIds, closed \in BOOLEAN :
          CloseReturns(r, id, closed)
    \/ \E r \in CycleCalls : RunEnds(r)

SpecCycle == InitCycleSpec /\ [][NextCycle]_vars


\* -------------------------------------------------------------------------
\* Specification SpecUpdate: concurrent handlers of kol_trade_update
\* -------------------------------------------------------------------------
MaxUpdateEvents == 3

updateFrame == <<trailVars, storeVars, clientVars, cacheVars, priceVars,
                 watchVars, coreVars, filterVars, predictVars, executeVars,
                 ledgerVars, tickerVars, cycleVars,
    socketVars,
    lockVars>>

NoMint == ""

\* Scores and volumes are in thousandths: influenceScore 100 is 100000.
Score(x) == x * 1000

Min(a, b) == IF a <= b THEN a ELSE b

\* The trades an event can carry: a buy of T1, a sell of T1 for T2, and a
\* trade that names no token.
TradeEvents ==
    { [kolWallet |-> "k1", tradeType |-> "buy", mint |-> "T1",
       tokenIn |-> NoMint, tokenOut |-> "T1",
       amountIn |-> 1000, amountOut |-> 95000],
      [kolWallet |-> "k2", tradeType |-> "sell", mint |-> "T1",
       tokenIn |-> "T1", tokenOut |-> "T2",
       amountIn |-> 1000, amountOut |-> 95000],
      [kolWallet |-> "k1", tradeType |-> "sell", mint |-> NoMint,
       tokenIn |-> NoMint, tokenOut |-> NoMint,
       amountIn |-> 1000, amountOut |-> 95000] }

\* The snapshots a mindmap_update can carry.
SnapshotPayloads ==
    { [totalTrades |-> 0, kolConnections |-> [w \in Wallets |-> NoConnection]],
      [totalTrades |-> 9,
       kolConnections |->
           [w \in Wallets |->
               IF w = "k1"
               THEN [tradeCount |-> 9, totalVolume |-> 5000,
                     influenceScore |-> Score(95)]
               ELSE NoConnection]] }

\* affectedTokens: the Set built from mint, tokenIn and tokenOut, in its
\* insertion order.
AddToken(seq, m) ==
    IF m = NoMint \/ (\E i \in 1..Len(seq) : seq[i] = m) THEN seq
    ELSE Append(seq, m)

affectedTokens(trade) ==
    AddToken(AddToken(AddToken(<<>>, trade.mint), trade.tokenIn),
             trade.tokenOut)

\* recalculateMindmapMetrics: the connection of the trade's wallet and the
\* network total, each one trade further.
recalculateMindmapMetrics(existingData, newTrade) ==
    LET old == existingData.kolConnections[newTrade.kolWallet]
        conn == IF old = NoConnection
                THEN [tradeCount |-> 0, totalVolume |-> 0, influenceScore |-> 0]
                ELSE old
        tradeVolume == IF newTrade.tradeType = "buy" THEN newTrade.amountOut
                       ELSE newTrade.amountIn
        count == conn.tradeCount + 1
        volume == conn.totalVolume + tradeVolume
    IN  [existingData EXCEPT
            !.kolConnections[newTrade.kolWallet] =
                [tradeCount |-> count,
                 totalVolume |-> volume,
                 influenceScore |-> Min(Score(100), Score(count * 10) + volume)],
            !.totalTrades = @ + 1]

\* The handlers that have read the snapshot of m and not yet written it.
PendingUpdates(m) ==
    {h \in UpdateHandlers : uPc[h] = "update" /\ Head(uQueue[h]) = m}

\* handleMindmapUpdate caches the event's snapshot over the stored one.
CacheSnapshot(m, data) ==
    /\ uSnap' = [uSnap EXCEPT ![m] = data]
    /\ uExpected' = [uExpected EXCEPT ![m] =
                        IF PendingUpdates(m) = {} THEN data.totalTrades
                        ELSE Untracked]
    /\ UNCHANGED <<uPc, uEvent, uQueue, uData, uEvents>>
    /\ UNCHANGED updateFrame

\* The 30 minute entry expires or cleanupAfterPurchase deletes it.
SnapshotDropped(m) ==
    /\ uSnap[m] # NoSnapshot
    /\ uSnap' = [uSnap EXCEPT ![m] = NoSnapshot]
    /\ uExpected' = [uExpected EXCEPT ![m] = Untracked]
    /\ UNCHANGED <<uPc, uEvent, uQueue, uData, uEvents>>
    /\ UNCHANGED updateFrame

\* The loop over affectedTokens moves to its next token or ends.
NextToken(h) ==
    /\ uQueue' = [uQueue EXCEPT ![h] = Tail(@)]
    /\ uPc' = [uPc EXCEPT ![h] = IF Len(uQueue[h]) > 1 THEN "get" ELSE "idle"]
    /\ uData' = [uData EXCEPT ![h] = NoSnapshot]

\* kol_trade_update is emitted: the handler collects the affected tokens
\* and asks for the snapshot of the first.
ActorTradeUpdate(h, trade) ==
    /\ uPc[h] = "idle"
    /\ uEvents < MaxUpdateEvents
    /\ uEvents' = uEvents + 1
    /\ uEvent' = [uEvent EXCEPT ![h] = trade]
    /\ uQueue' = [uQueue EXCEPT ![h] = affectedTokens(trade)]
    /\ uPc' = [uPc EXCEPT ![h] =
                  IF affectedTokens(trade) = <<>> THEN "idle" ELSE "get"]
    /\ UNCHANGED <<uSnap, uData, uExpected>>
    /\ UNCHANGED updateFrame

\* getMindmapData has answered: with no snapshot (or a cache error) the loop
\* continues, else the metrics are recalculated and updateMindmapData is
\* called.
GetMindmapReturns(h, failed) ==
    /\ uPc[h] = "get"
    /\ IF failed \/ uSnap[Head(uQueue[h])] = NoSnapshot
       THEN NextToken(h)
       ELSE /\ uData' = [uData EXCEPT ![h] =
                  recalculateMindmapMetrics(uSnap[Head(uQueue[h])], uEvent[h])]
            /\ uPc' = [uPc EXCEPT ![h] = "update"]
            /\ UNCHANGED uQueue
    /\ UNCHANGED <<uSnap, uEvent, uExpected, uEvents>>
    /\ UNCHANGED updateFrame

\* updateMindmapData has written the recalculated snapshot, or has failed
\* in safeExecute.
UpdateMindmapReturns(h, failed) ==
    /\ uPc[h] = "update"
    /\ LET m == Head(uQueue[h])
       IN  IF failed
           THEN UNCHANGED <<uSnap, uExpected>>
           ELSE /\ uSnap' = [uSnap EXCEPT ![m] = uData[h]]
                /\ uExpected' = [uExpected EXCEPT ![m] =
                      IF @ = Untracked THEN Untracked ELSE @ + 1]
    /\ NextToken(h)
    /\ UNCHANGED <<uEvent, uEvents>>
    /\ UNCHANGED updateFrame

InitUpdateSpec ==
    /\ InitStore
    /\ InitClients
    /\ InitTrailVars
    /\ InitCache
    /\ InitPrice
    /\ InitWatch
    /\ InitCore
    /\ InitLock
    /\ InitSocket
    /\ InitTickers
    /\ InitLedger
    /\ InitExecute
    /\ InitPredictIdle
    /\ InitFilterIdle
    /\ InitCycle
    /\ InitUpdate

NextUpdate ==
    \/ \E m \in UpdateMints, data \in SnapshotPayloads : CacheSnapshot(m, data)
    \/ \E m \in UpdateMints : SnapshotDropped(m)
    \/ \E h \in UpdateHandlers, trade \in TradeEvents : ActorTradeUpdate(h, trade)
    \/ \E h \in UpdateHandlers, failed \in BOOLEAN : GetMindmapReturns(h, failed)
    \/ \E h \in UpdateHandlers, failed \in BOOLEAN : UpdateMindmapReturns(h, failed)

SpecUpdate == InitUpdateSpec /\ [][NextUpdate]_vars


\* -------------------------------------------------------------------------
\* Specification SpecSocket: connection, loss and reconnection
\* -------------------------------------------------------------------------
\* config.maxReconnectAttempts.
maxReconnectAttempts == 2

MaxSockets == 4

MaxForwarded == 2

socketFrame == <<trailVars, storeVars, clientVars, cacheVars, priceVars,
                 watchVars, coreVars, filterVars, predictVars, executeVars,
                 ledgerVars, tickerVars, cycleVars, updateVars,
    lockVars>>

\* The reasons a connected socket reports for a disconnect it did not ask
\* for.
DisconnectReasons == {"io server disconnect", "transport close", "ping timeout"}

\* The fields of the manager that reconnectWithBackoff reads and writes.
Manager ==
    [isReconnecting |-> isReconnecting, reconnectAttempts |-> reconnectAttempts,
     timer |-> sTimer, maxReached |-> sMaxReached]

SetManager(s) ==
    /\ isReconnecting' = s.isReconnecting
    /\ reconnectAttempts' = s.reconnectAttempts
    /\ sTimer' = s.timer
    /\ sMaxReached' = s.maxReached

\* reconnectWithBackoff: nothing while a reconnection is under way;
\* max_reconnect_attempts_reached once the attempts are used up; else one
\* more attempt is counted and its timer set.
reconnectWithBackoff(s) ==
    IF s.isReconnecting THEN s
    ELSE IF s.reconnectAttempts >= maxReconnectAttempts
    THEN [s EXCEPT !.maxReached = TRUE]
    ELSE [s EXCEPT !.isReconnecting = TRUE, !.reconnectAttempts = @ + 1,
                   !.timer = TRUE]

\* handleError: a recoverable error starts a reconnection unless one is
\* under way.
handleError(s, recoverable) ==
    IF recoverable /\ shouldReconnect /\ ~s.isReconnecting
    THEN reconnectWithBackoff(s) ELSE s

\* handleDisconnect: a disconnect the client did not ask for starts a
\* reconnection.
handleDisconnect(s, reason) ==
    IF shouldReconnect /\ reason # "io client disconnect"
    THEN reconnectWithBackoff(s) ELSE s

\* connect() as called at start-up: io() opens a socket.
Connect ==
    /\ socket = "none"
    /\ sOpened = 0
    /\ ~sDisconnectCalled
    /\ socket' = "connecting"
    /\ sCaller' = "start"
    /\ sOpened' = 1
    /\ UNCHANGED <<reconnectAttempts, isReconnecting, shouldReconnect, sTimer,
                   sLost, sMaxReached, sDisconnectCalled, sForwarded>>
    /\ UNCHANGED socketFrame

\* The socket emits connect: handleConnect and the once-handler of connect()
\* reset the attempts.
SocketConnects ==
    /\ socket = "connecting"
    /\ socket' = "connected"
    /\ reconnectAttempts' = 0
    /\ isReconnecting' = FALSE
    /\ sLost' = FALSE
    /\ sMaxReached' = FALSE
    /\ UNCHANGED <<shouldReconnect, sTimer, sCaller, sOpened, sDisconnectCalled, sForwarded>>
    /\ UNCHANGED socketFrame

\* The socket emits connect_error: handleError runs first and calls
\* reconnectWithBackoff for a recoverable error unless a reconnection is
\* under way; then connect() rejects, and the catch block of the timer
\* callback resets isReconnecting.  A socket that never connected emits no
\* disconnect.
SocketConnectError(recoverable) ==
    /\ socket = "connecting"
    /\ socket' = "closed"
    /\ LET handled == handleError(Manager, recoverable)
       IN  SetManager(IF sCaller = "timer"
                      THEN [handled EXCEPT !.isReconnecting = FALSE]
                      ELSE handled)
    /\ UNCHANGED <<shouldReconnect, sCaller, sOpened, sLost, sDisconnectCalled, sForwarded>>
    /\ UNCHANGED socketFrame

\* The connected socket emits disconnect for a reason of its own:
\* handleDisconnect calls reconnectWithBackoff while shouldReconnect is set.
SocketDisconnects(reason) ==
    /\ socket = "connected"
    /\ socket' = "closed"
    /\ sLost' = TRUE
    /\ SetManager(handleDisconnect(Manager, reason))
    /\ UNCHANGED <<shouldReconnect, sCaller, sOpened, sDisconnectCalled, sForwarded>>
    /\ UNCHANGED socketFrame

\* The timer of reconnectWithBackoff fires: its callback calls connect(),
\* which opens a new socket.
TimerFires ==
    /\ sTimer
    /\ sOpened < MaxSockets
    /\ sTimer' = FALSE
    /\ socket' = "connecting"
    /\ sCaller' = "timer"
    /\ sOpened' = sOpened + 1
    /\ UNCHANGED <<reconnectAttempts, isReconnecting, shouldReconnect, sLost,
                   sMaxReached, sDisconnectCalled, sForwarded>>
    /\ UNCHANGED socketFrame

\* The connected socket delivers mindmap_update or kol_trade_update, which
\* the manager emits to its listeners.
SocketData ==
    /\ socket = "connected"
    /\ sForwarded < MaxForwarded
    /\ sForwarded' = sForwarded + 1
    /\ UNCHANGED <<socket, reconnectAttempts, isReconnecting, shouldReconnect,
                   sTimer, sCaller, sOpened, sLost, sMaxReached,
                   sDisconnectCalled>>
    /\ UNCHANGED socketFrame

\* disconnect(): shouldReconnect is unset and the socket, if there is one,
\* is disconnected and dropped; its disconnect event carries the reason
\* 'io client disconnect', for which handleDisconnect does nothing.
Disconnect ==
    /\ shouldReconnect' = FALSE
    /\ socket' = "none"
    /\ sDisconnectCalled' = TRUE
    /\ UNCHANGED <<reconnectAttempts, isReconnecting, sTimer, sCaller, sOpened,
                   sLost, sMaxReached, sForwarded>>
    /\ UNCHANGED socketFrame

InitSocketSpec ==
    /\ InitStore
    /\ InitClients
    /\ InitTrailVars
    /\ InitCache
    /\ InitPrice
    /\ InitWatch
    /\ InitCore
    /\ InitLock
    /\ InitTickers
    /\ InitLedger
    /\ InitExecute
    /\ InitPredictIdle
    /\ InitFilterIdle
    /\ InitCycle
    /\ InitUpdate
    /\ InitSocket

NextSocket ==
    \/ Connect
    \/ SocketConnects
    \/ \E recoverable \in BOOLEAN : SocketConnectError(recoverable)
    \/ \E reason \in DisconnectReasons : SocketDisconnects(reason)
    \/ TimerFires
    \/ SocketData
    \/ Disconnect

SpecSocket == InitSocketSpec /\ [][NextSocket]_vars


\* -------------------------------------------------------------------------
\* Specification SpecLock: callers of the pending-trade lock
\* -------------------------------------------------------------------------
MaxLockCalls == 4

lockFrame == <<trailVars, storeVars, clientVars, cacheVars, priceVars,
               watchVars, coreVars, filterVars, predictVars, executeVars,
               ledgerVars, tickerVars, cycleVars, updateVars, socketVars>>

\* acquirePendingTradeLock: SET key '1' NX EX 60 answers OK when the key was
\* absent; a cache error is caught and the call returns false.
acquirePendingTradeLock(c, m, failed) ==
    /\ nCalls < MaxLockCalls
    /\ ~nHolds[c][m]
    /\ nCalls' = nCalls + 1
    /\ IF ~failed /\ ~nLock[m]
       THEN /\ nLock' = [nLock EXCEPT ![m] = TRUE]
            /\ nOwner' = [nOwner EXCEPT ![m] = c]
            /\ nHolds' = [nHolds EXCEPT ![c][m] = TRUE]
            /\ nLast' = LockEvent("acquire", c, m, TRUE)
       ELSE /\ nLast' = LockEvent("acquire", c, m, FALSE)
            /\ UNCHANGED <<nLock, nOwner, nHolds>>
    /\ UNCHANGED lockFrame

\* releasePendingTradeLock by a caller whose acquire returned true: DEL of
\* the key, whatever set it; a cache error is only logged.
releasePendingTradeLock(c, m, failed) ==
    /\ nCalls < MaxLockCalls
    /\ nHolds[c][m]
    /\ nCalls' = nCalls + 1
    /\ nHolds' = [nHolds EXCEPT ![c][m] = FALSE]
    /\ nLast' = LockEvent("release", c, m, ~failed)
    /\ IF failed
       THEN UNCHANGED <<nLock, nOwner>>
       ELSE /\ nLock' = [nLock EXCEPT ![m] = FALSE]
            /\ nOwner' = [nOwner EXCEPT ![m] = "none"]
    /\ UNCHANGED lockFrame

\* The 60 s TTL of the key runs out.
LockExpires(m) ==
    /\ nLock[m]
    /\ nLock' = [nLock EXCEPT ![m] = FALSE]
    /\ nOwner' = [nOwner EXCEPT ![m] = "none"]
    /\ nLast' = LockEvent("expire", "none", m, TRUE)
    /\ UNCHANGED <<nHolds, nCalls>>
    /\ UNCHANGED lockFrame

InitLockSpec ==
    /\ InitStore
    /\ InitClients
    /\ InitTrailVars
    /\ InitCache
    /\ InitPrice
    /\ InitWatch
    /\ InitCore
    /\ InitTickers
    /\ InitLedger
    /\ InitExecute
    /\ InitPredictIdle
    /\ InitFilterIdle
    /\ InitCycle
    /\ InitUpdate
    /\ InitSocket
    /\ InitLock

NextLock ==
    \/ \E c \in LockCallers, m \in LockMints, failed \in BOOLEAN :
          acquirePendingTradeLock(c, m, failed)
    \/ \E c \in LockCallers, m \in LockMints, failed \in BOOLEAN :
          releasePendingTradeLock(c, m, failed)
    \/ \E m \in LockMints : LockExpires(m)

SpecLock == InitLockSpec /\ [][NextLock]_vars

\* -------------------------------------------------------------------------
\* Claims about the stepped trailing stop (specification SpecTrail)
\* -------------------------------------------------------------------------
SteppedMode(trade) ==
    /\ trade.sellConditions.takeProfitPercentage > 0
    /\ trade.sellConditions.trailingStopPercentage > 0

LastPrice == tPrices[Len(tPrices)]

\* The state (stepLevel, currStopPrice, nextTargetPrice) computed from price p.
SteppedFrom(trade, level, p) ==
    /\ trade.sellConditions.trailingStopActivated
    /\ trade.sellConditions.stepLevel = level
    /\ trade.sellConditions.currStopPrice * 100
         = p * (100 - trade.sellConditions.trailingStopPercentage)
    /\ trade.sellConditions.nextTargetPrice * 100
         = p * (100 + trade.sellConditions.takeProfitPercentage)

ScenarioS1 ==
    /\ tTrade.entryPrice = U(100)
    /\ tTrade.sellConditions.takeProfitPercentage = 50
    /\ tTrade.sellConditions.trailingStopPercentage = 10

IsPrefix(s, t) == Len(s) <= Len(t) /\ SubSeq(t, 1, Len(s)) = s

\* C10: in stepped mode with a positive entry price the trailing stop activates
\* at the first observed price p whose gain over the entry price is at least the
\* take profit, with stepLevel 1, stop p*(1-trailing/100) and target
\* p*(1+takeProfit/100); once active it steps (level + 1, both prices from p)
\* exactly when p >= nextTargetPrice and otherwise keeps its state.  Entry 100,
\* take profit 50, trailing 10 and prices 140, 150, 200, 230 give: inactive,
\* (1, 135, 225), unchanged, (2, 207, 345), and a next price of 200 selects the
\* stepped stop exit.
C10_SteppedTrailing ==
    /\ (Len(tPrices) > 0 /\ SteppedMode(tPrev) /\ tPrev.entryPrice > 0) =>
         LET p  == LastPrice
             c0 == tPrev.sellConditions
             c1 == tTrade.sellConditions
         IN  IF ~c0.trailingStopActivated
             THEN IF (p - tPrev.entryPrice) * 100
                        >= c0.takeProfitPercentage * tPrev.entryPrice
                  THEN SteppedFrom(tTrade, 1, p)
                  ELSE c1 = c0
             ELSE IF p >= c0.nextTargetPrice
                  THEN SteppedFrom(tTrade, c0.stepLevel + 1, p)
                  ELSE c1 = c0
    /\ ScenarioS1 =>
         /\ tPrices = <<U(140)>> => ~tTrade.sellConditions.trailingStopActivated
         /\ tPrices = <<U(140), U(150)>> =>
              /\ SteppedFrom(tTrade, 1, U(150))
              /\ tTrade.sellConditions.currStopPrice = U(135)
              /\ tTrade.sellConditions.nextTargetPrice = U(225)
         /\ tPrices = <<U(140), U(150), U(200)>> =>
              tTrade.sellConditions = tPrev.sellConditions
         /\ IsPrefix(<<U(140), U(150), U(200), U(230)>>, tPrices)
              /\ Len(tPrices) = 4 =>
              /\ tTrade.sellConditions.stepLevel = 2
              /\ tTrade.sellConditions.currStopPrice = U(207)
              /\ tTrade.sellConditions.nextTargetPrice = U(345)
         /\ tPrices = <<U(140), U(150), U(200), U(230), U(200)>> =>
              tReason = "stepped_stop"

\* The scenario ran to its end: the fifth price selected the stepped stop.
C10_Witness ==
    /\ ScenarioS1
    /\ tPrices = <<U(140), U(150), U(200), U(230), U(200)>>
    /\ tTrade.sellConditions.stepLevel = 2
    /\ tReason = "stepped_stop"

\* -------------------------------------------------------------------------
\* Claims about the trade store (specification SpecStore)
\* -------------------------------------------------------------------------
Stored(id) == trades[id] # NoTrade

\* C3: once the stored status of a position is closed it never becomes open
\* again, and its id, once out of the open set, never returns to it, whatever
\* the interleaving of updateTradePrice, updateTrade and closeTrade calls.
C3_ClosedStaysClosed ==
    [][\A id \in TradeIds :
          (Stored(id) /\ trades[id].status = "closed") =>
             /\ trades'[id].status = "closed"
             /\ (id \notin openSet => id \notin openSet')]_vars

\* C9: in every state a reader can observe, an id is in the open set exactly
\* when its stored status is open, in the closed set exactly when its stored
\* status is closed, and never in both sets.
C9_IndexMatchesStatus ==
    \A id \in TradeIds :
        /\ Stored(id) =>
             /\ (id \in openSet) <=> (trades[id].status = "open")
             /\ (id \in closedSet) <=> (trades[id].status = "closed")
        /\ ~(id \in openSet /\ id \in closedSet)

\* -------------------------------------------------------------------------
\* Claims about the watcher (specification SpecWatcher)
\* -------------------------------------------------------------------------
\* C4: for every position at most one sell swap succeeds: once a sell swap
\* for the position has returned success, no later evaluation makes another
\* sell swap call for it, whether the closeTrade call after the swap
\* succeeded or failed.
C4_AtMostOneSell ==
    [][\A id \in TradeIds :
          sellOk[id] >= 1 => sellCalls'[id] = sellCalls[id]]_vars

\* C5: an evaluation of an open position whose hold time is set and has run
\* out (clock - openedAt >= maxHoldTimeMinutes) makes the sell call for the
\* max hold exit, whether the cached price is present, absent or errored.
C5_MaxHoldSellsFirst ==
    (lastEval.id # 0 /\ lastEval.maxHold > 0 /\ lastEval.held >= lastEval.maxHold)
        => /\ lastEval.sellCalled
           /\ lastEval.step = "sell"
           /\ lastEval.reason = "max_hold"

\* The hold time ran out exactly at the evaluation, the token's price was
\* absent and flagged as errored, and the sell call was made.
C5_Witness ==
    /\ lastEval.id # 0
    /\ lastEval.maxHold > 0
    /\ lastEval.held = lastEval.maxHold
    /\ lastEval.priceState = "errored"
    /\ lastEval.sellCalled

\* C6: a sell attempt that fails because the wallet holds none of the token
\* ends with the watcher force-closing the position (a closeTrade call), in
\* real mode and in paper mode, so that the sell is not retried forever.
C6_NoBalanceForceCloses ==
    (lastEval.id # 0 /\ lastEval.sellCalled /\ lastEval.noBalance)
        => lastEval.closeCalled

\* -------------------------------------------------------------------------
\* Claims about the price cache (specification SpecPrice)
\* -------------------------------------------------------------------------
\* C8: for every token the cache never holds a live price entry and a live
\* error entry at the same time, under every interleaving of monitor ticks,
\* discoverToken calls and TTL expirations.
C8_PriceXorError ==
    \A m \in Tokens : ~(pPrice[m] # Undef /\ pErr[m])

\* -------------------------------------------------------------------------
\* Claims about the engine (specification Spec)
\* -------------------------------------------------------------------------
InBuy(h) == hPc[h] \in {"swapping", "markProcessed"}

OpenPositions(m) ==
    {id \in TradeIds : Stored(id) /\ trades[id].status = "open"
                                  /\ trades[id].tokenMint = m}

Settled(m) ==
    \A h \in Handlers :
        hMint[h] = m => hPc[h] \notin {"incRead", "incWrite", "markFailed"}

\* C1: of two MindmapUpdate events for the same token that are handled
\* concurrently and both pass the filter and the prediction gate, only one
\* calls the swap backend: no two handlers are past their swap call for the
\* same token at the same time.
C1_OneSwapCall ==
    \A h1, h2 \in Handlers :
        (h1 # h2 /\ InBuy(h1) /\ InBuy(h2)) => hMint[h1] # hMint[h2]

\* C2: in every reachable state there is at most one position with status
\* open per token (the model has one agent).
C2_OneOpenPosition ==
    \A m \in Tokens : Cardinality(OpenPositions(m)) <= 1

\* C7: once the prediction service has returned non-approval for a token
\* MAX_PREDICTION_RETRIES times in a row while the retry keys are unexpired,
\* and the bookkeeping of those evaluations is done, the token is in the
\* prediction-failed set (so that later evaluations return before the
\* prediction call).
C7_ThreeRejectionsFail ==
    \A m \in Tokens :
        (consecNon[m] >= MAX_PREDICTION_RETRIES /\ Settled(m)) => m \in predFailed

\* -------------------------------------------------------------------------
\* Claims about the price step (specification SpecTrail), continued
\* -------------------------------------------------------------------------
\* C11: for a position whose entry price is 0 the trailing stop never
\* activates: trailingStopActivated stays false after every sequence of
\* observed prices.
C11_ZeroEntryNeverActivates ==
    tTrade.entryPrice = 0 => ~tTrade.sellConditions.trailingStopActivated

C13_StopLossHolds ==
    /\ tTrade.sellConditions.stopLossPercentage > 0
    /\ tTrade.entryPrice > 0
    /\ (LastPrice - tTrade.entryPrice) * 100
          <= (0 - tTrade.sellConditions.stopLossPercentage) * tTrade.entryPrice

C13_TakeProfitHolds ==
    /\ tTrade.sellConditions.takeProfitPercentage > 0
    /\ tTrade.entryPrice > 0
    /\ (LastPrice - tTrade.entryPrice) * 100
          >= tTrade.sellConditions.takeProfitPercentage * tTrade.entryPrice

C13_SteppedHolds ==
    /\ tTrade.sellConditions.trailingStopActivated
    /\ tTrade.sellConditions.currStopPrice > 0
    /\ LastPrice <= tTrade.sellConditions.currStopPrice

C13_LegacyHolds ==
    /\ tTrade.sellConditions.trailingStopPercentage > 0
    /\ tTrade.sellConditions.takeProfitPercentage = 0
    /\ tTrade.highestPrice > 0
    /\ (LastPrice - tTrade.highestPrice) * 100
          <= (0 - tTrade.sellConditions.trailingStopPercentage) * tTrade.highestPrice

\* C13: the exit selected for an observed price is the first that matches in
\* the order stop loss, take profit (only with no trailing stop configured),
\* stepped stop, legacy continuous trailing; so stop loss wins over the
\* stepped stop and a trade with a trailing stop never exits by take profit.
C13_ExitOrder ==
    tPrices # <<>> =>
        /\ tReason =
              IF C13_StopLossHolds THEN "stop_loss"
              ELSE IF C13_TakeProfitHolds
                      /\ tTrade.sellConditions.trailingStopPercentage = 0
                   THEN "take_profit"
              ELSE IF C13_SteppedHolds THEN "stepped_stop"
              ELSE IF C13_LegacyHolds THEN "trailing_stop"
              ELSE "none"
        /\ (C13_StopLossHolds /\ C13_SteppedHolds => tReason = "stop_loss")
        /\ (tTrade.sellConditions.trailingStopPercentage > 0
               => tReason # "take_profit")

C13_Witness ==
    /\ tPrices # <<>>
    /\ C13_StopLossHolds
    /\ C13_SteppedHolds
    /\ tReason = "stop_loss"


\* An evaluation that reaches the price lookup: the hold time is unset or has
\* not run out.
C14_ReachedPrice(e) == ~(e.maxHold > 0 /\ e.held >= e.maxHold)

\* C14: an evaluation that finds no cached price and an error entry for the
\* token makes no swap call and calls closeTrade, which stores the position
\* closed with exitPrice 0 and the pricing-error reason; an evaluation that
\* finds neither a price nor an error entry changes nothing of the position.
C14_PricingErrorForceClose ==
    [][(evals' = evals + 1 /\ C14_ReachedPrice(lastEval')) =>
         LET id == lastEval'.id IN
         /\ lastEval'.priceState = "errored" =>
               /\ ~lastEval'.sellCalled
               /\ sellCalls' = sellCalls
               /\ wallet' = wallet
               /\ lastEval'.closeCalled
               /\ \/ UNCHANGED storeVars
                  \/ /\ trades'[id] = [trades[id] EXCEPT
                                          !.status = "closed",
                                          !.closedAt = clock,
                                          !.exitPrice = 0,
                                          !.exitAmount = trades[id].entryAmount,
                                          !.exitValue = 0,
                                          !.sellReason = "pricing_error",
                                          !.realizedPnL = 0 - trades[id].entryValue]
                     /\ id \notin openSet'
                     /\ id \in closedSet'
         /\ lastEval'.priceState = "absent" =>
               /\ ~lastEval'.sellCalled
               /\ ~lastEval'.closeCalled
               /\ sellCalls' = sellCalls
               /\ wallet' = wallet
               /\ UNCHANGED storeVars]_vars

\* The last evaluation found an error entry and no price, and the position
\* is stored closed for the pricing error.
C14_Witness ==
    /\ lastEval.id # 0
    /\ C14_ReachedPrice(lastEval)
    /\ lastEval.priceState = "errored"
    /\ trades[lastEval.id] # NoTrade
    /\ trades[lastEval.id].status = "closed"
    /\ trades[lastEval.id].sellReason = "pricing_error"
    /\ trades[lastEval.id].exitPrice = 0
    /\ sellCalls[lastEval.id] = 0


\* -------------------------------------------------------------------------
\* Claims about the recorded prices (specification SpecStore)
\* -------------------------------------------------------------------------
\* C15: every stored position has highestPrice >= currentPrice >= lowestPrice,
\* whatever the interleaving of createTrade, updateTradePrice, the watcher's
\* updateTrade and closeTrade.
C15_HighCurrentLow ==
    \A id \in TradeIds :
        trades[id] # NoTrade =>
            /\ trades[id].highestPrice >= trades[id].currentPrice
            /\ trades[id].currentPrice >= trades[id].lowestPrice

\* A closed position whose price went up and then down to 0.
C15_Witness ==
    \E id \in TradeIds :
        /\ trades[id] # NoTrade
        /\ trades[id].status = "closed"
        /\ trades[id].highestPrice > trades[id].entryPrice
        /\ trades[id].currentPrice = 0
        /\ trades[id].lowestPrice = 0


\* Client c writes the trade key for its updateTradePrice call in this step.
C16_PriceWrite(c) ==
    /\ cOp[c] = "updatePrice"
    /\ cPc[c] = "setEx"
    /\ cPc'[c] = "agentIdx"

\* C16: a write of updateTradePrice to an open position never lowers the
\* stored highestPrice and never raises the stored lowestPrice, prices and
\* entry prices of 0 included.
C16_HighLowMonotone ==
    [][\A c \in StoreClients :
          LET id == cTrade[c].id IN
          (C16_PriceWrite(c) /\ trades[id] # NoTrade /\ trades[id].status = "open")
              => /\ trades'[id].highestPrice >= trades[id].highestPrice
                 /\ trades'[id].lowestPrice <= trades[id].lowestPrice]_vars


\* C17: updateTradePrice goes on to write only for a trade that exists and is
\* stored as open; called for any other id it returns having changed no
\* stored trade, no index set and no caller's state, and having emitted no
\* event.
C17_UpdatePriceFrame ==
    [][/\ (calls' = calls + 1 /\ lastCall'.op = "updatePrice")
            => /\ trades[lastCall'.id] # NoTrade
               /\ trades[lastCall'.id].status = "open"
       /\ (lastCall' # lastCall /\ lastCall'.op = "updatePrice"
              /\ (trades[lastCall'.id] = NoTrade
                     \/ trades[lastCall'.id].status # "open"))
            => /\ lastCall'.result = "skipped"
               /\ UNCHANGED <<storeVars, cOp, cPc, cTrade, closedIds, calls, events>>
      ]_vars

\* The last call was an updateTradePrice for a trade stored as closed, and it
\* returned at once.
C17_Witness ==
    /\ lastCall = Call("updatePrice", 1, "skipped")
    /\ trades[1] # NoTrade
    /\ trades[1].status = "closed"
    /\ 1 \in closedSet


\* Client c begins the storeTrade of a closeTrade call in this step.
C18_CloseEnters(c) ==
    /\ cPc[c] = "idle"
    /\ cPc'[c] = "setEx"
    /\ cOp'[c] = "close"

\* C18: closeTrade on a stored trade writes the object it read with status
\* closed, closedAt set, exitValue = exitPrice * exitAmount and realizedPnL =
\* exitValue - entryValue, adds the id to the closed set and removes it from
\* the open set; closeTrade on an id the store has no trade for returns null
\* and writes nothing.
C18_CloseTradeStores ==
    [][/\ \A c \in StoreClients :
            LET id == cTrade'[c].id
                n == cTrade'[c]
            IN
            /\ C18_CloseEnters(c) =>
                  /\ trades[id] # NoTrade
                  /\ n.status = "closed"
                  /\ n.closedAt # Undef
                  /\ n.exitValue = n.exitPrice * n.exitAmount
                  /\ n.realizedPnL = n.exitValue - trades[id].entryValue
                  /\ n = [trades[id] EXCEPT !.status = n.status,
                                            !.closedAt = n.closedAt,
                                            !.exitPrice = n.exitPrice,
                                            !.exitAmount = n.exitAmount,
                                            !.exitValue = n.exitValue,
                                            !.sellReason = n.sellReason,
                                            !.realizedPnL = n.realizedPnL]
            /\ (cOp[c] = "close" /\ cPc[c] = "setEx" /\ cPc'[c] # "setEx")
                  => trades'[cTrade[c].id] = cTrade[c]
            /\ (cOp[c] = "close" /\ cPc[c] = "statusAdd" /\ cPc'[c] # "statusAdd")
                  => cTrade[c].id \in closedSet'
            /\ (cOp[c] = "close" /\ cPc[c] = "statusRem" /\ cPc'[c] # "statusRem")
                  => cTrade[c].id \notin openSet'
       /\ (lastCall' # lastCall /\ lastCall'.op = "close"
              /\ trades[lastCall'.id] = NoTrade)
            => /\ lastCall'.result = "null"
               /\ trades'[lastCall'.id] = NoTrade
               /\ UNCHANGED <<storeVars, cOp, cPc, cTrade, closedIds, calls, events>>
      ]_vars

\* A closeTrade call on an open position has returned: the position is stored
\* closed with a positive exit value, and its id has moved to the closed set.
C18_Witness ==
    /\ 1 \in closedIds
    /\ trades[1] # NoTrade
    /\ trades[1].status = "closed"
    /\ trades[1].entryValue > 0
    /\ trades[1].exitValue > 0
    /\ trades[1].realizedPnL = trades[1].exitValue - trades[1].entryValue
    /\ 1 \in closedSet
    /\ 1 \notin openSet


\* -------------------------------------------------------------------------
\* Claims about the filter engine (specification SpecFilter)
\* -------------------------------------------------------------------------
\* evaluate has run on a snapshot of a token other than native SOL.
Evaluated == fResult # NoResult /\ ~fData.native

HasSignal == FilterSignals(fCriteria, fData) # {}

\* One of the three thresholds is not met by the snapshot.
ThresholdUnmet ==
    \/ calculateTotalVolume(fData) < fCriteria.minTradeVolume
    \/ Len(fData.conns) < fCriteria.minConnectedKOLs
    \/ fData.totalTrades < fCriteria.minTotalTrades

BelowInfluenceFloor ==
    FracLess(calculateAvgInfluenceScore(fData), fCriteria.minInfluenceScore)

ThresholdReasons == {"volume", "kols", "trades"}

\* C19: with at least one signal the volume, KOL and trade-count thresholds
\* are skipped (no rejection comes from them, and the token passes unless
\* the influence floor or an on-chain filter rejects it); with no signal an
\* unmet threshold rejects; with or without signals an average influence
\* score below minInfluenceScore rejects.
C19_SignalsSkipThresholds ==
    /\ Evaluated =>
          /\ (~HasSignal /\ ThresholdUnmet)
                => ~fResult.passed /\ fResult.reason \in ThresholdReasons
          /\ HasSignal => fResult.reason \notin ThresholdReasons
          /\ (HasSignal /\ BelowInfluenceFloor) => fResult.reason = "influence"
          /\ (HasSignal /\ ~BelowInfluenceFloor
                /\ fCriteria.minMarketCapUsd = 0 /\ fCriteria.minLiquidityUsd = 0)
                => fResult.passed
    /\ (fResult # NoResult /\ BelowInfluenceFloor) => ~fResult.passed

\* A snapshot with a signal and an unmet threshold has passed.
C19_Witness ==
    /\ Evaluated
    /\ HasSignal
    /\ ThresholdUnmet
    /\ fResult.passed

EmptySnapshot == Evaluated /\ Len(fData.conns) = 0

\* C20 as stated: a snapshot with zero connections has avgInfluenceScore 0
\* and consensusScore 0 and is rejected on the influence floor, whatever the
\* criteria.
C20_EmptyRejectsOnInfluence ==
    EmptySnapshot =>
        /\ fResult.metrics.avgInfluenceScore.num = 0
        /\ fResult.metrics.consensusScore.num = 0
        /\ ~fResult.passed
        /\ fResult.reason = "influence"

\* C20 amended: a snapshot with zero connections has avgInfluenceScore 0 and
\* consensusScore 0 and emits no signal; it is rejected by the first of
\* minTradeVolume, minConnectedKOLs, minTotalTrades and minInfluenceScore that
\* it does not meet, the influence floor being the one only when the three
\* before it are met, and with all four met only the on-chain filters can
\* reject it.
C20_EmptyRejectsFirstUnmet ==
    EmptySnapshot =>
        /\ fResult.metrics.avgInfluenceScore.num = 0
        /\ fResult.metrics.consensusScore.num = 0
        /\ ~HasSignal
        /\ fResult.reason =
              IF fCriteria.minTradeVolume > 0 THEN "volume"
              ELSE IF fCriteria.minConnectedKOLs > 0 THEN "kols"
              ELSE IF fData.totalTrades < fCriteria.minTotalTrades THEN "trades"
              ELSE IF fCriteria.minInfluenceScore > 0 THEN "influence"
              ELSE fResult.reason
        /\ fResult.reason \in ThresholdReasons \cup {"influence"} => ~fResult.passed
        /\ (fCriteria.minTradeVolume = 0 /\ fCriteria.minConnectedKOLs = 0
              /\ fData.totalTrades >= fCriteria.minTotalTrades
              /\ fCriteria.minInfluenceScore = 0)
             => /\ fResult.reason \notin ThresholdReasons \cup {"influence"}
                /\ (fCriteria.minMarketCapUsd = 0 /\ fCriteria.minLiquidityUsd = 0)
                      => fResult.passed

\* A snapshot with zero connections that met the three thresholds and was
\* rejected on the influence floor.
C20_Witness ==
    /\ EmptySnapshot
    /\ fCriteria.minInfluenceScore > 0
    /\ fResult.reason = "influence"
    /\ ~fResult.passed


OnChainReasons == {"onchain_error", "no_price", "no_supply", "market_cap"}

\* C21: for every configured threshold, 0 included, the signals of a result
\* are: VIRAL_SPIKE exactly when viralVelocity >= minViralVelocity,
\* SMART_MONEY exactly when requireSmartMoney is set and weightedVolume >
\* 0.6 * totalVolume, HIGH_CONSENSUS exactly when consensusScore >=
\* minConsensusScore and at least 3 KOLs are connected.
C21_SignalsExact ==
    (Evaluated /\ fResult.reason \notin OnChainReasons) =>
        /\ "VIRAL_SPIKE" \in fResult.signals
             <=> /\ fCriteria.minViralVelocity # Undef
                 /\ calculateViralVelocity(fData) >= fCriteria.minViralVelocity
        /\ "SMART_MONEY" \in fResult.signals
             <=> /\ fCriteria.requireSmartMoney
                 /\ calculateWeightedVolume(fData).num
                      > 60 * calculateTotalVolume(fData)
        /\ "HIGH_CONSENSUS" \in fResult.signals
             <=> /\ fCriteria.minConsensusScore # Undef
                 /\ FracAtLeast(calculateConsensus(fData), fCriteria.minConsensusScore)
                 /\ Len(fData.conns) >= 3


\* The criteria that let most through: every threshold at 0, every signal
\* enabled, no on-chain filter.
PermissiveCriteria == Criteria(0, 0, 0, 0, 2, TRUE, 60, 0, 0)

\* C22: an event for the native SOL mint is dropped before any evaluation (no
\* handler is past its entry with that mint, so none calls the swap backend
\* for it), no stored position is in that mint, and evaluate rejects a
\* snapshot of that mint whatever its connections, the criteria and the
\* on-chain answers.
C22_NativeNeverTraded ==
    /\ \A h \in Handlers : hMint[h] = NATIVE_SOL_ADDRESS => hPc[h] = "idle"
    /\ \A id \in TradeIds :
          trades[id] # NoTrade => trades[id].tokenMint # NATIVE_SOL_ADDRESS
    \* evaluate reads no state but the criteria, which no event changes:
    \* it is computed before the first event is delivered.
    /\ deliveries = 0 =>
          \A c \in {fCriteria, PermissiveCriteria}, k \in FilterConnections,
             o \in OnChain :
             ~evaluate(c, Snapshot(TRUE, k, 0), o).passed

\* An event for the native SOL mint was the last a handler took, while a
\* position in another token is open.
C22_Witness ==
    /\ \E h \in Handlers : hMint[h] = NATIVE_SOL_ADDRESS /\ hPc[h] = "idle"
    /\ \E id \in TradeIds : trades[id] # NoTrade /\ trades[id].status = "open"


\* -------------------------------------------------------------------------
\* Claims about the prediction gate (specification SpecPredict)
\* -------------------------------------------------------------------------

\* The endpoint answered with a prediction of this label whose probability
\* is at least the given number of thousandths.
AnsweredGood(thousandths) ==
    /\ qAnswer.kind = "data"
    /\ Len(qAnswer.data) > 0
    /\ qAnswer.data[1].classLabel = "good"
    /\ qAnswer.data[1].probability # Undef
    /\ qAnswer.data[1].probability >= thousandths

C24_ApprovedOnlyFromSixtyNine ==
    qPc = "done" /\ qResult.approved => qResult.confidence >= Percent(69)

\* The last attempt failed with an error withRetry does not retry.
FatalAnswer == qAnswer.kind = "error" /\ ~isRetryableError(qAnswer.message)

\* After an error that is not retryable the request is over: no wait and
\* no attempt follows it, and predict has returned its failure result.
C29_FatalEndsRequest == FatalAnswer => qPc = "done" /\ qResult.failed

\* C29 (as stated): a prediction request is attempted at most 3 times in
\* total, the backoff delay between attempts never exceeds 10 s, and an
\* error that is not retryable is rethrown without any further attempt.
C29_AtMostThreeAttempts ==
    /\ qOps <= 3
    /\ qDelay <= 10000
    /\ C29_FatalEndsRequest

\* C29 (amended): a prediction request is attempted at most 4 times in
\* total (the first try and up to maxRetries = 3 retries), the backoff delay
\* between attempts never exceeds 10 s, and an error that is not retryable
\* is rethrown without any further attempt.
C29_AtMostFourAttempts ==
    /\ qOps <= PostRetryOptions.maxRetries + 1
    /\ qDelay <= PostRetryOptions.maxDelayMs
    /\ C29_FatalEndsRequest

C29_Witness ==
    /\ qOps = 4
    /\ qDelay >= 4000
    /\ FatalAnswer
    /\ qPc = "done"

\* -------------------------------------------------------------------------
\* Claims about mindmap events and trade execution (specification Spec)
\* -------------------------------------------------------------------------

\* The handler of a repeated event has returned without a buy of its own.
RedeliveryHandled ==
    /\ redo # "none"
    /\ hPc[redo] = "idle"
    /\ hSwaps[redo] = 0

\* C25: handling the same MindmapUpdate a second time leaves the cached
\* snapshot as the first handling left it, whatever the first handling's
\* outcome was (rejected, prediction failed, or bought).
C25_RedeliveryKeepsSnapshot ==
    RedeliveryHandled => mindmap[lastEvent.tokenMint] = redoSnap

\* performSwap of handler h answers with a failure, or throws, in this step.
SwapFails(h) ==
    hPc[h] = "swapping" /\ hPc'[h] \notin {"swapping", "markProcessed"}

\* C26: execute calls the swap backend at most once per invocation; when
\* the swap reports failure or throws, execute returns success = false, the
\* token is not added to the processed set and its mindmap snapshot is not
\* deleted (and execute goes on to neither in that invocation).
C26_FailedSwapLeavesCaches ==
    /\ [](\A h \in Handlers :
            /\ hSwaps[h] <= 1
            /\ hSuccess[h] = "false" => hPc[h] = "idle" /\ hSwaps[h] = 1)
    /\ [][\A h \in Handlers :
            SwapFails(h) =>
                /\ hSuccess'[h] = "false"
                /\ hPc'[h] = "idle"
                /\ processed' = processed
                /\ mindmap' = mindmap
                /\ UNCHANGED storeVars]_vars

C26_Witness ==
    \E h \in Handlers :
        /\ hSuccess[h] = "false"
        /\ hSwaps[h] = 1
        /\ hPc[h] = "idle"
        /\ hMint[h] \in Tokens
        /\ hMint[h] \notin processed
        /\ mindmap[hMint[h]] # 0

\* -------------------------------------------------------------------------
\* Claims about the paper ledger (specification SpecLedger)
\* -------------------------------------------------------------------------

\* C27: under any interleaving of deposit and withdraw calls on one token
\* the balance is never negative and, when no call is in progress, equals
\* the initial balance plus all deposits minus all successful withdrawals;
\* a withdraw larger than the balance fails and leaves the balance unchanged.
C27_BalanceConserved ==
    /\ parseBalance(lBalance) >= 0
    /\ (\A c \in LedgerCallers : lPc[c] = "idle") =>
          parseBalance(lBalance) = lDeposited - lWithdrawn
    /\ \A c \in LedgerCallers :
          lOp[c].kind = "insufficient" => lPc[c] = "idle"

\* -------------------------------------------------------------------------
\* Claims about the tickers (specification SpecTickers)
\* -------------------------------------------------------------------------

\* C28: after a stop signal no ticker starts a tick later than one period
\* after the signal (at most the one tick already due starts): the watcher
\* tick and heartbeat after TradeWatcherService.stop, both price-monitor
\* loops after the worker's STOP message.
C28_TickersHaltAfterStop ==
    \A k \in Tickers : kStopped[GroupOf(k)] => kAfter[k] <= 1

\* -------------------------------------------------------------------------
\* Claims about the discovery loop (specification SpecPriceFair)
\* -------------------------------------------------------------------------

\* The mint is in the interest set with no cached price, no error entry and
\* this route hint.
NeedsDiscovery(m, hint) ==
    /\ pInterest[m]
    /\ pPrice[m] = Undef
    /\ ~pErr[m]
    /\ pSource[m] = hint

\* The slow loop has passed the mint to discoverToken.
InDiscovery(m) == dPc["loop"] = "fetching" /\ dMint["loop"] = m

SellsRunning ==
    {id \in CycleIds :
        \E r \in CycleCalls : yEval[r][id] \in {"swapping", "closing"}}

\* C31: at most one sell swap call is in flight per position; executeSell
\* makes no swap call for an id of the in-flight set, adds the id before the
\* call and removes it on every completion path, so the set holds exactly
\* the ids whose sell is running and is empty when none is.
C31_OneSellInFlight ==
    /\ [](/\ \A id \in CycleIds : ySwaps[id] <= 1
          /\ yInFlight = SellsRunning
          /\ \A id \in CycleIds :
                ySwaps[id] = 1 <=>
                    \E r \in CycleCalls : yEval[r][id] = "swapping")
    /\ [][\A id \in CycleIds :
            ySwaps'[id] > ySwaps[id] =>
                id \notin yInFlight /\ id \in yInFlight']_vars

C31_Witness ==
    /\ yInFlight = {}
    /\ yTicks >= 2
    /\ \E id \in CycleIds : yStatus[id] = "open"
    /\ \E id \in CycleIds : yStatus[id] = "closed"
    /\ \A r \in CycleCalls : yPc[r] = "idle"

\* The calls of processOpenTrades that are past the guard.
RunsInProgress == {r \in CycleCalls : yPc[r] # "idle"}

\* C38: watcher ticks never overlap: a tick during a run is skipped, and
\* isProcessing is reset on every exit path, so it is set exactly while a
\* run is in progress and the next tick after a run runs.
C38_TicksNeverOverlap ==
    /\ [](/\ Cardinality(RunsInProgress) <= 1
          /\ yProcessing <=> RunsInProgress # {})
    /\ [][yTicks' = yTicks + 1 =>
            IF RunsInProgress # {}
            THEN yLastTick' = "skipped" /\ RunsInProgress' = RunsInProgress
            ELSE yLastTick' = "ran" /\ Cardinality(RunsInProgress') = 1]_vars

C38_Witness ==
    /\ yLastTick = "skipped"
    /\ \E r \in CycleCalls, id \in CycleIds : yEval[r][id] = "swapping"
    /\ \E id \in CycleIds : yStatus[id] = "closed"

\* C32: for any token, the number of prediction calls that end in
\* non-approval never exceeds MAX_PREDICTION_RETRIES while the retry keys
\* are unexpired, under any interleaving of the handlers.
C32_AtMostThreeRejections ==
    \A m \in Tokens : consecNon[m] <= MAX_PREDICTION_RETRIES

\* -------------------------------------------------------------------------
\* Claims about the trade updates (specification SpecUpdate)
\* -------------------------------------------------------------------------

\* C33: each handled trade update adds exactly one to totalTrades of the
\* cached snapshot of every affected token: once the handlers are done, the
\* snapshot of a mint holds the totalTrades of the last overwrite plus the
\* number of updates written for it since, in any interleaving.
C33_TotalTradesGrowsByN ==
    \A m \in UpdateMints :
        (/\ \A h \in UpdateHandlers : uPc[h] = "idle"
         /\ uSnap[m] # NoSnapshot
         /\ uExpected[m] # Untracked)
            => uSnap[m].totalTrades = uExpected[m]

\* C34: every buy for which the swap backend reports success results in
\* exactly one position stored with status open: the step in which a
\* handler's buy swap answers with success (after which execute marks the
\* token processed and returns success) stores one new open position of the
\* handler's token.
C34_SuccessfulBuyOpensPosition ==
    [][\A h \in Handlers :
          (hPc[h] = "swapping" /\ hPc'[h] = "markProcessed") =>
              /\ nextId' = nextId + 1
              /\ trades'[nextId] # NoTrade
              /\ trades'[nextId].status = "open"
              /\ trades'[nextId].tokenMint = hMint[h]
              /\ nextId \in openSet']_vars

\* -------------------------------------------------------------------------
\* Claims about the WebSocket manager (specification SpecSocket)
\* -------------------------------------------------------------------------

\* C35: after an unintentional disconnect the manager keeps scheduling
\* reconnection attempts until a connection succeeds or the attempts are
\* used up and max_reconnect_attempts_reached is emitted: it is never left
\* without a socket in progress, with reconnection wanted and no attempt
\* scheduled, and reconnectAttempts never exceeds maxReconnectAttempts.
C35_ReconnectsUntilDone ==
    /\ reconnectAttempts <= maxReconnectAttempts
    /\ (sLost /\ shouldReconnect /\ socket = "closed") =>
          \/ sTimer
          \/ reconnectAttempts = maxReconnectAttempts /\ sMaxReached

\* C36: after disconnect() has been called no new socket is opened, a
\* reconnect timer scheduled before the call included.
C36_NoSocketAfterDisconnect ==
    [][sDisconnectCalled => sOpened' = sOpened]_vars

\* -------------------------------------------------------------------------
\* Claims about the life of the trailing state (specification SpecTrail)
\* -------------------------------------------------------------------------

\* The position has a take profit and a trailing percentage set.
Trailing == tTrade.sellConditions.takeProfitPercentage > 0
            /\ tTrade.sellConditions.trailingStopPercentage > 0

C39_FirstCloseKept ==
    [][\A id \in StoreIds :
          (/\ trades[id] # NoTrade
           /\ trades[id].status = "closed"
           /\ trades'[id].status = "closed") =>
              /\ trades'[id].closedAt = trades[id].closedAt
              /\ trades'[id].exitPrice = trades[id].exitPrice
              /\ trades'[id].exitAmount = trades[id].exitAmount
              /\ trades'[id].exitValue = trades[id].exitValue
              /\ trades'[id].realizedPnL = trades[id].realizedPnL
              /\ trades'[id].sellReason = trades[id].sellReason]_vars

\* -------------------------------------------------------------------------
\* Claims about the pending-trade lock (specification SpecLock)
\* -------------------------------------------------------------------------

\* C40: the pending-trade lock is mutually exclusive per token: an acquire
\* returns true only when no lock is set and never during a cache error, and
\* a lock that is set is removed only by its expiry or by the release of
\* the caller that acquired it, not by the release of an earlier holder
\* whose own lock had expired.
C40_LockExclusive ==
    [][\A m \in LockMints :
          /\ (nLast' # nLast /\ nLast'.op = "acquire" /\ nLast'.mint = m
              /\ nLast'.result) => ~nLock[m]
          /\ (nLock[m] /\ ~nLock'[m]) =>
                \/ nLast'.op = "expire"
                \/ nLast'.op = "release" /\ nLast'.caller = nOwner[m]]_vars
=============================================================================
